---- MODULE Spec2Model ----
(***************************************************************************)
(* Verification model of the upstox_swing web front end.                   *)
(*                                                                         *)
(*  - ChartsManager  (src/web/js/chartsManager.js): the lazy chart loader  *)
(*    driven by a scroll listener (loadedCount / isLoadingMore).           *)
(*  - ChartRenderer  (src/web/js/chartRenderer.js): the lazy chart loader  *)
(*    driven by an IntersectionObserver (currentBatchIndex /               *)
(*    isLoadingBatch).                                                     *)
(*  - sanitizeAndSortPoints (both variants of ChartsManager).              *)
(*                                                                         *)
(* JavaScript is single threaded: every action below is one run-to-        *)
(* completion segment of a handler, from its entry or from the await it    *)
(* was suspended at, to its next await or its end.                         *)
(***************************************************************************)
EXTENDS Integers, Sequences, FiniteSets, TLC

\* ------------------------------------------------------------------ bounds
MaxTotal == 41
MaxResets == 2
MaxLen == 3
MaxCandles == 5
MaxRows == 3
MaxHistory == 10
MaxLoads == 3
MaxTime == 2
MaxStamped == 3

\* ------------------------------------------------- program constants
INITIAL_BATCH == 20
LOAD_MORE_BATCH == 10
chartBatchSize == 20

\* List lengths tried: every multiple of five up to MaxTotal, and MaxTotal itself
Totals == {n \in 0..MaxTotal : n % 5 = 0 \/ n = MaxTotal}

Min(a, b) == IF a <= b THEN a ELSE b

\* The fields that hold a loaded dataset: dailyData and min125Data of the
\* DataLoader of dataLoader.js:8-9, data of the DataLoader of config.js:238
Fields == {"daily", "min125", "data"}

\* The timeframes a dataset is requested for
Timeframes == {"daily", "min125"}

VARIABLES
    component,            \* which part of the front end the run exercises
    \* ChartsManager fields
    loadedCount,          \* this.loadedCount
    isLoadingMore,        \* this.isLoadingMore
    allSignals,           \* this.allSignals: [gen, n], the list computed by
                          \* renderCharts invocation gen, of length n
    scrollListener,       \* this.scrollListener is installed
    dataLoaderData,       \* dataLoader.data is loaded (truthy)
    \* ChartsManager suspended invocations
    renderChartsPending,  \* renderCharts invocations suspended at line 21
    loadMorePending,      \* loadMore invocations suspended at line 82 (FIFO timers)
    \* ChartsManager history
    generation,           \* number of renderCharts resets (lines 18-19) so far
    batches,              \* ranges handed out by loadNextBatch since the last reset
    resetSnapshot,        \* the fields as they were right after the last reset
    cmLastOp,             \* the handler segment that ran last
    itemTimers,           \* the setTimeout callbacks of line 61 not yet run: per
                          \* list (gen), the range of indices they were set for
    foreignChart,         \* a container of the grid holds a chart of a symbol
                          \* that is not of the current list
    \* ChartRenderer fields
    currentBatchIndex,    \* this.currentBatchIndex
    isLoadingBatch,       \* this.isLoadingBatch
    allSymbols,           \* this.allSymbols: [gen, n], the list passed to
                          \* renderChartsGrid call gen, of length n
    observer,             \* this.observer is set
    observedAttached,     \* the sentinel this.observer observes is in the grid
    sentinel,             \* the grid holds a #charts-sentinel element
    \* ChartRenderer suspended invocations
    batchPending,         \* loadNextBatch invocations suspended at line 391
    gridPending,          \* renderChartsGrid invocations suspended at line 358
                          \* whose loadNextBatch has returned
    \* ChartRenderer history
    crGeneration,         \* number of renderChartsGrid calls so far
    crBatches,            \* batches rendered into the grid since the last reset
    crResetSnapshot,      \* the fields as they were right after the last reset
    crLastOp,             \* the handler segment that ran last
    crItemTimers,         \* the setTimeout callbacks of lines 424-426 not yet run
    crForeignChart,       \* a container of the grid holds a chart of a symbol
                          \* that is not of the current list
    \* sanitizeAndSortPoints
    points,               \* the list handed to sanitizeAndSortPoints
    clean,                \* its result, by chartsManager.js:176-188
    cleanAgain,           \* the result of applying that to clean
    cleanNum,             \* its result, by the variant that converts with Number()
    cleanNumAgain,        \* the result of applying that variant to cleanNum
    sanPhase,             \* "input", "once" or "twice"
    \* addSupertrendSeries
    candles,              \* the candle series of one symbol, in time order
    segments,             \* the segments built by chartsManager.js:190-221
    segmentsEarlier,      \* the segments built by chartsManager.js:557-604
    segmentsRows,         \* the segments built by part_004:227-272
    segmentsRenderChart,  \* the segments built by chartRenderer.js:215-263
    segmentsBand,         \* the segments built by chartsManager.js:241-271
    stPhase,              \* "input", "done" or "charted"
    \* FiltersManager
    fmData,               \* the data rows handed to the classification call
    fmFilters,            \* the filters it is called with
    fmSignals,            \* what the call returned, or that it threw
    fmPhase,              \* "input", "done" or "indexed"
    \* DataLoader and its callers
    dlData,               \* the loaded datasets by field: dailyData and min125Data
                          \* of dataLoader.js, data of the DataLoader of config.js;
                          \* 0 is null, n > 0 the dataset retrieval n delivered
    dlIsLoading,          \* isLoading of main.js
    dlPending,            \* the invocations suspended at an await
    dlLoads,              \* number of invocations that went to the provider so far
    dlLastOp,             \* the handler segment that ran last
    currentTab,           \* currentTab of main.js
    tabContent            \* per signals tab: "none", "signals" once its tables
                          \* were rendered, "error" once its load failed

cmVars == <<loadedCount, isLoadingMore, allSignals, scrollListener, dataLoaderData,
            renderChartsPending, loadMorePending, generation, batches,
            resetSnapshot, cmLastOp, itemTimers, foreignChart>>

crVars == <<currentBatchIndex, isLoadingBatch, allSymbols, observer, observedAttached,
            sentinel, batchPending, gridPending, crGeneration, crBatches,
            crResetSnapshot, crLastOp, crItemTimers, crForeignChart>>

sanVars == <<points, clean, cleanAgain, cleanNum, cleanNumAgain, sanPhase>>

stVars == <<candles, segments, segmentsEarlier, segmentsRows, segmentsRenderChart,
            segmentsBand, stPhase>>

fmVars == <<fmData, fmFilters, fmSignals, fmPhase>>

dlVars == <<dlData, dlIsLoading, dlPending, dlLoads, dlLastOp, currentTab, tabContent>>

vars == <<component, cmVars, crVars, sanVars, stVars, fmVars, dlVars>>

\* ChartsManager as constructed (chartsManager.js:2-11), dataLoader as constructed
\* (config.js:237-240), ChartRenderer as constructed (chartRenderer.js:10-19)
Components == {"ChartsManager", "ChartRenderer", "sanitizeAndSortPoints",
               "addSupertrendSeries", "addBandSeries", "detectSignals", "checkVolatilityBreakout",
               "applyFilters", "DataLoader", "getDataBySymbol", "renderChart", "switchTab"}

Init ==
    /\ component \in Components
    /\ loadedCount = 0
    /\ isLoadingMore = FALSE
    /\ allSignals = [gen |-> 0, n |-> 0]
    /\ scrollListener = FALSE
    /\ dataLoaderData = FALSE
    /\ renderChartsPending = {}
    /\ loadMorePending = <<>>
    /\ generation = 0
    /\ batches = <<>>
    /\ resetSnapshot = [loadedCount |-> 0, inFlight |-> FALSE]
    /\ cmLastOp = "constructor"
    /\ itemTimers = {}
    /\ foreignChart = FALSE
    /\ currentBatchIndex = 0
    /\ isLoadingBatch = FALSE
    /\ allSymbols = [gen |-> 0, n |-> 0]
    /\ observer = FALSE
    /\ observedAttached = FALSE
    /\ sentinel = FALSE
    /\ batchPending = {}
    /\ gridPending = {}
    /\ crGeneration = 0
    /\ crBatches = <<>>
    /\ crResetSnapshot = [startIndex |-> 0, inFlight |-> FALSE]
    /\ crLastOp = "constructor"
    /\ crItemTimers = {}
    /\ crForeignChart = FALSE
    /\ points = <<>>
    /\ clean = <<>>
    /\ cleanAgain = <<>>
    /\ cleanNum = <<>>
    /\ cleanNumAgain = <<>>
    /\ sanPhase = "input"
    /\ candles = <<>>
    /\ segments = <<>>
    /\ segmentsEarlier = <<>>
    /\ segmentsRows = <<>>
    /\ segmentsRenderChart = <<>>
    /\ segmentsBand = <<>>
    /\ stPhase = "input"
    /\ fmData = <<>>
    /\ fmFilters = [timeframe |-> "", strategy |-> "", mcap |-> 0, pctDiff |-> 0]
    /\ fmSignals = [threw |-> FALSE, list |-> <<>>]
    /\ fmPhase = "input"
    /\ dlData = [f \in Fields |-> 0]
    /\ dlIsLoading = FALSE
    /\ dlPending = {}
    /\ dlLoads = 0
    /\ dlLastOp = [op |-> "constructor", outcome |-> "returned", field |-> "data",
                   forced |-> FALSE, before |-> 0, overtaken |-> FALSE]
    /\ currentTab = "daily"
    /\ tabContent = [tab \in {"daily", "125min"} |-> "none"]

\* ------------------------------------------------------------ ChartsManager

\* Mutant: the end index is not capped at the length of the list
loadNextBatchRange_uncapped(count, lc, n) ==
    [start |-> lc, end |-> lc + count]

\* Mutant: the batch starts at the head of the list, not at loadedCount
loadNextBatchRange_fromZero(count, lc, n) ==
    [start |-> 0, end |-> Min(lc + count, n)]

\* chartsManager.js:44-45: the range loadNextBatch(count) hands out
loadNextBatchRange(count, lc, n) ==
    [start |-> lc, end |-> Min(lc + count, n)]

\* chartsManager.js:61, chartRenderer.js:424-426: the timers with those of the
\* items start..end-1 of list gen added (one range per list is kept: the
\* least range that holds every index a timer was set for)
setTimeouts(timers, start, end, gen) ==
    IF start >= end THEN timers
    ELSE LET old == {t \in timers : t.gen = gen}
             lo == IF \E t \in old : t.start < start
                   THEN (CHOOSE t \in old : TRUE).start ELSE start
             hi == IF \E t \in old : t.end > end
                   THEN (CHOOSE t \in old : TRUE).end ELSE end
         IN  (timers \ old) \cup {[gen |-> gen, start |-> lo, end |-> hi]}

\* document.getElementById('chart-' + i) finds a container: one of the batches
\* rendered into the grid since it was last cleared covers i
containerExists(hist, i) == \E k \in 1..Len(hist) : hist[k].start <= i /\ i < hist[k].end

\* chartsManager.js:42-65: loadNextBatch(count) on the current fields; startedGen is
\* the generation in which the calling handler was invoked; a batch is recorded
\* when the loop of lines 46-62 runs at least once
ChartsManager_loadNextBatch(count, lc, sigs, startedGen, hist) ==
    LET r == loadNextBatchRange(count, lc, sigs.n)
    IN  [loadedCount |-> r.end,
         batches |-> IF r.start < r.end
                     THEN Append(hist, [start |-> r.start, end |-> r.end,
                                        gen |-> sigs.gen, startedGen |-> startedGen])
                     ELSE hist]

\* What the awaited part of renderCharts produces: the signals found (ok, n of
\* them), or an exception (getData rejects, a detector throws)
Outcomes == {[ok |-> TRUE, n |-> k] : k \in Totals} \cup {[ok |-> FALSE, n |-> 0]}

\* chartsManager.js:22-39: renderCharts from after the await to its end, for the
\* invocation g
renderChartsTail(g, o, lc, sigs, hist) ==
    IF o.ok /\ o.n > 0
    THEN LET sg == [gen |-> g, n |-> o.n]
             b  == ChartsManager_loadNextBatch(INITIAL_BATCH, lc, sg, g, hist)
             r  == loadNextBatchRange(INITIAL_BATCH, lc, o.n)
         IN  /\ allSignals' = sg
             /\ loadedCount' = b.loadedCount
             /\ batches' = b.batches
             /\ itemTimers' = setTimeouts(itemTimers, r.start, r.end, g)
             /\ scrollListener' = TRUE
    ELSE /\ allSignals' = sigs
         /\ loadedCount' = lc
         /\ batches' = hist
         /\ UNCHANGED <<scrollListener, itemTimers>>

\* chartsManager.js:13-40 when dataLoader.data is already loaded: no await is
\* taken and the handler runs to its end
renderCharts(o) ==
    /\ component = "ChartsManager"
    /\ UNCHANGED <<component, crVars, sanVars, stVars, fmVars, dlVars>>
    /\ dataLoaderData
    /\ generation < MaxResets
    /\ generation' = generation + 1
    /\ resetSnapshot' = [loadedCount |-> 0, inFlight |-> isLoadingMore]
    /\ renderChartsTail(generation + 1, o, 0, [gen |-> generation + 1, n |-> 0], <<>>)
    /\ cmLastOp' = "renderCharts"
    /\ foreignChart' = FALSE
    /\ UNCHANGED <<isLoadingMore, dataLoaderData, renderChartsPending, loadMorePending>>

\* chartsManager.js:13-21 when dataLoader.data is not loaded: reset, then suspend
\* on dataLoader.getData()
renderChartsBegin ==
    /\ component = "ChartsManager"
    /\ UNCHANGED <<component, crVars, sanVars, stVars, fmVars, dlVars>>
    /\ ~dataLoaderData
    /\ generation < MaxResets
    /\ generation' = generation + 1
    /\ resetSnapshot' = [loadedCount |-> 0, inFlight |-> isLoadingMore]
    /\ loadedCount' = 0
    /\ allSignals' = [gen |-> generation + 1, n |-> 0]
    /\ batches' = <<>>
    /\ renderChartsPending' = renderChartsPending \cup {generation + 1}
    /\ cmLastOp' = "renderChartsBegin"
    /\ foreignChart' = FALSE
    /\ UNCHANGED <<isLoadingMore, scrollListener, dataLoaderData, loadMorePending,
                   itemTimers>>

\* chartsManager.js:21-39: getData() settles and the suspended invocation g resumes
renderChartsResume(g, o) ==
    /\ component = "ChartsManager"
    /\ UNCHANGED <<component, crVars, sanVars, stVars, fmVars, dlVars>>
    /\ g \in renderChartsPending
    /\ renderChartsPending' = renderChartsPending \ {g}
    /\ dataLoaderData' = (dataLoaderData \/ o.ok)
    /\ renderChartsTail(g, o, loadedCount, allSignals, batches)
    /\ cmLastOp' = "renderChartsResume"
    /\ UNCHANGED <<isLoadingMore, loadMorePending, generation, resetSnapshot,
                   foreignChart>>

\* Mutant: loadMore does not test whether every signal is loaded
loadMoreGuard_busyOnly == isLoadingMore

\* Mutant: loadMore does not test whether a load is in flight
loadMoreGuard_completeOnly == loadedCount >= allSignals.n

\* chartsManager.js:79: the guard of loadMore
loadMoreGuard == isLoadingMore \/ loadedCount >= allSignals.n

\* chartsManager.js:78-82: loadMore up to its await
loadMore ==
    /\ component = "ChartsManager"
    /\ UNCHANGED <<component, crVars, sanVars, stVars, fmVars, dlVars>>
    /\ IF loadMoreGuard
       THEN /\ cmLastOp' = "loadMoreNoop"
            /\ UNCHANGED <<isLoadingMore, loadMorePending>>
       ELSE /\ isLoadingMore' = TRUE
            /\ loadMorePending' = Append(loadMorePending, [gen |-> generation])
            /\ cmLastOp' = "loadMore"
    /\ UNCHANGED <<loadedCount, allSignals, scrollListener, dataLoaderData,
                   renderChartsPending, generation, batches, resetSnapshot,
                   itemTimers, foreignChart>>

\* chartsManager.js:69-74: the scroll listener, fired near the bottom of the page
scrollListenerFire ==
    /\ component = "ChartsManager"
    /\ UNCHANGED <<component, crVars, sanVars, stVars, fmVars, dlVars>>
    /\ scrollListener
    /\ IF ~isLoadingMore /\ loadedCount < allSignals.n /\ ~loadMoreGuard
       THEN /\ isLoadingMore' = TRUE
            /\ loadMorePending' = Append(loadMorePending, [gen |-> generation])
            /\ cmLastOp' = "scroll"
       ELSE /\ cmLastOp' = "scrollNoop"
            /\ UNCHANGED <<isLoadingMore, loadMorePending>>
    /\ UNCHANGED <<loadedCount, allSignals, scrollListener, dataLoaderData,
                   renderChartsPending, generation, batches, resetSnapshot,
                   itemTimers, foreignChart>>

\* chartsManager.js:82-84: the 100 ms timer fires and loadMore resumes
loadMoreResume ==
    /\ component = "ChartsManager"
    /\ UNCHANGED <<component, crVars, sanVars, stVars, fmVars, dlVars>>
    /\ loadMorePending # <<>>
    /\ LET b == ChartsManager_loadNextBatch(LOAD_MORE_BATCH, loadedCount, allSignals,
                                            Head(loadMorePending).gen, batches)
           r == loadNextBatchRange(LOAD_MORE_BATCH, loadedCount, allSignals.n)
       IN  /\ loadedCount' = b.loadedCount
           /\ batches' = b.batches
           /\ itemTimers' = setTimeouts(itemTimers, r.start, r.end, allSignals.gen)
    /\ loadMorePending' = Tail(loadMorePending)
    /\ isLoadingMore' = FALSE
    /\ cmLastOp' = "loadMoreResume"
    /\ UNCHANGED <<allSignals, scrollListener, dataLoaderData, renderChartsPending,
                   generation, resetSnapshot, foreignChart>>

\* chartsManager.js:61, 106-108: a timer set for item i of the list t.gen fires:
\* renderSingleChart('chart-' + i, symbol, candles) draws the symbol into the
\* container with that id, if the grid has one
renderSingleChart(t, i) ==
    /\ component = "ChartsManager"
    /\ UNCHANGED <<component, crVars, sanVars, stVars, fmVars, dlVars>>
    /\ t \in itemTimers
    /\ i \in t.start..(t.end - 1)
    /\ foreignChart' = (foreignChart
                            \/ (containerExists(batches, i) /\ t.gen # allSignals.gen))
    /\ cmLastOp' = "renderSingleChart"
    /\ UNCHANGED <<loadedCount, isLoadingMore, allSignals, scrollListener,
                   dataLoaderData, renderChartsPending, loadMorePending, generation,
                   batches, resetSnapshot, itemTimers>>

\* Every timer set for the list t.gen has fired
itemTimersDone(t) ==
    /\ component = "ChartsManager"
    /\ UNCHANGED <<component, crVars, sanVars, stVars, fmVars, dlVars>>
    /\ t \in itemTimers
    /\ itemTimers' = itemTimers \ {t}
    /\ cmLastOp' = "itemTimersDone"
    /\ UNCHANGED <<loadedCount, isLoadingMore, allSignals, scrollListener,
                   dataLoaderData, renderChartsPending, loadMorePending, generation,
                   batches, resetSnapshot, foreignChart>>


\* ------------------------------------------------------------ ChartRenderer

\* The handlers run in two components: "ChartRenderer" follows lists of every
\* length in Totals and leaves the per-item timers of lines 424-426 out;
\* "renderChart" follows those timers, for lists of at most one batch

\* chartRenderer.js:375-376: the range the next batch covers
batchRange(idx, n) ==
    [start |-> idx * chartBatchSize,
     end |-> Min(idx * chartBatchSize + chartBatchSize, n)]

\* chartRenderer.js:369-391: loadNextBatch up to its await, on the fields
\* (idx, busy, syms); caller and symLen say who awaits its result
loadNextBatchEntry(idx, busy, syms, startedGen, caller, symLen) ==
    LET r == batchRange(idx, syms.n)
    IN  IF busy
        THEN /\ isLoadingBatch' = busy
             /\ batchPending' = batchPending
             /\ UNCHANGED <<sentinel, observedAttached>>
             /\ crLastOp' = "loadNextBatchBusy"
        ELSE IF r.start >= syms.n
        THEN /\ isLoadingBatch' = busy
             /\ batchPending' = batchPending
             /\ sentinel' = FALSE
             /\ observedAttached' = FALSE
             /\ crLastOp' = "loadNextBatchDone"
        ELSE /\ isLoadingBatch' = TRUE
             /\ batchPending' = batchPending \cup
                    {[start |-> r.start, end |-> r.end, gen |-> syms.gen,
                      startedGen |-> startedGen, caller |-> caller, symLen |-> symLen]}
             /\ UNCHANGED <<sentinel, observedAttached>>
             /\ crLastOp' = "loadNextBatch"

\* chartRenderer.js:330-358: renderChartsGrid(symbols) up to its await, for a
\* list of n symbols
renderChartsGrid(n) ==
    /\ component \in {"ChartRenderer", "renderChart"}
    /\ component = "renderChart" => n <= chartBatchSize
    /\ UNCHANGED <<component, cmVars, sanVars, stVars, fmVars, dlVars>>
    /\ crGeneration < MaxResets
    /\ crGeneration' = crGeneration + 1
    /\ observer' = FALSE
    /\ crBatches' = <<>>
    /\ IF n = 0
       THEN /\ sentinel' = FALSE
            /\ observedAttached' = FALSE
            /\ crLastOp' = "renderChartsGridEmpty"
            /\ UNCHANGED <<currentBatchIndex, isLoadingBatch, allSymbols, batchPending,
                           crResetSnapshot>>
       ELSE /\ allSymbols' = [gen |-> crGeneration + 1, n |-> n]
            /\ currentBatchIndex' = 0
            /\ crResetSnapshot' = [startIndex |-> 0, inFlight |-> FALSE]
            /\ sentinel' = FALSE
            /\ observedAttached' = FALSE
            /\ isLoadingBatch' = TRUE
            /\ batchPending' = batchPending \cup
                   {[start |-> 0, end |-> batchRange(0, n).end, gen |-> crGeneration + 1,
                     startedGen |-> crGeneration + 1, caller |-> "grid", symLen |-> n]}
            /\ crLastOp' = "renderChartsGrid"
    /\ crForeignChart' = FALSE
    /\ UNCHANGED <<gridPending, crItemTimers>>

\* chartRenderer.js:369-391: a call of loadNextBatch() from outside the class
ChartRenderer_loadNextBatch ==
    /\ component \in {"ChartRenderer", "renderChart"}
    /\ UNCHANGED <<component, cmVars, sanVars, stVars, fmVars, dlVars>>
    /\ loadNextBatchEntry(currentBatchIndex, isLoadingBatch, allSymbols,
                          crGeneration, "other", 0)
    /\ UNCHANGED <<currentBatchIndex, allSymbols, observer, gridPending, crGeneration,
                   crBatches, crResetSnapshot, crItemTimers, crForeignChart>>

\* chartRenderer.js:460-467: the IntersectionObserver reports the sentinel visible
observerFire ==
    /\ component \in {"ChartRenderer", "renderChart"}
    /\ UNCHANGED <<component, cmVars, sanVars, stVars, fmVars, dlVars>>
    /\ observer /\ observedAttached
    /\ IF ~isLoadingBatch
       THEN loadNextBatchEntry(currentBatchIndex, isLoadingBatch, allSymbols,
                               crGeneration, "other", 0)
       ELSE /\ crLastOp' = "observerNoop"
            /\ UNCHANGED <<isLoadingBatch, batchPending, sentinel, observedAttached>>
    /\ UNCHANGED <<currentBatchIndex, allSymbols, observer, gridPending, crGeneration,
                   crBatches, crResetSnapshot, crItemTimers, crForeignChart>>

\* chartRenderer.js:391-442: getData() resolves and the suspended loadNextBatch r
\* runs to its end
loadNextBatchResume(r) ==
    /\ component \in {"ChartRenderer", "renderChart"}
    /\ UNCHANGED <<component, cmVars, sanVars, stVars, fmVars, dlVars>>
    /\ r \in batchPending
    /\ batchPending' = batchPending \ {r}
    /\ crBatches' = Append(crBatches, [start |-> r.start, end |-> r.end, gen |-> r.gen,
                                       startedGen |-> r.startedGen])
    /\ currentBatchIndex' = currentBatchIndex + 1
    /\ isLoadingBatch' = FALSE
    /\ IF r.end < allSymbols.n
       THEN /\ sentinel' = TRUE
            /\ UNCHANGED observedAttached
       ELSE /\ sentinel' = FALSE
            /\ observedAttached' = FALSE
    /\ gridPending' = IF r.caller = "grid"
                      THEN gridPending \cup {[symLen |-> r.symLen, gen |-> r.startedGen]}
                      ELSE gridPending
    /\ crItemTimers' = IF component = "renderChart"
                       THEN setTimeouts(crItemTimers, r.start, r.end, r.gen)
                       ELSE crItemTimers
    /\ crLastOp' = "loadNextBatchResume"
    /\ UNCHANGED <<allSymbols, observer, crGeneration, crResetSnapshot, crForeignChart>>

\* chartRenderer.js:391: getData() rejects and the suspended loadNextBatch r throws
loadNextBatchReject(r) ==
    /\ component \in {"ChartRenderer", "renderChart"}
    /\ UNCHANGED <<component, cmVars, sanVars, stVars, fmVars, dlVars>>
    /\ r \in batchPending
    /\ batchPending' = batchPending \ {r}
    /\ crLastOp' = "loadNextBatchReject"
    /\ UNCHANGED <<currentBatchIndex, isLoadingBatch, allSymbols, observer,
                   observedAttached, sentinel, gridPending, crGeneration, crBatches,
                   crResetSnapshot, crItemTimers, crForeignChart>>

\* chartRenderer.js:447-475: setupLazyLoading
setupLazyLoading ==
    /\ sentinel' = TRUE
    /\ observer' = TRUE
    /\ observedAttached' = TRUE

\* chartRenderer.js:358-364: renderChartsGrid resumes after its first batch
renderChartsGridResume(c) ==
    /\ component \in {"ChartRenderer", "renderChart"}
    /\ UNCHANGED <<component, cmVars, sanVars, stVars, fmVars, dlVars>>
    /\ c \in gridPending
    /\ gridPending' = gridPending \ {c}
    /\ IF c.symLen > chartBatchSize
       THEN setupLazyLoading
       ELSE UNCHANGED <<sentinel, observer, observedAttached>>
    /\ crLastOp' = "renderChartsGridResume"
    /\ UNCHANGED <<currentBatchIndex, isLoadingBatch, allSymbols, batchPending,
                   crGeneration, crBatches, crResetSnapshot, crItemTimers,
                   crForeignChart>>

\* chartRenderer.js:424-426: a timer set for item i of the list t.gen fires:
\* renderChart('chart-' + i, symbol, ...) draws the symbol into the container
\* with that id, if the grid has one
renderChart(t, i) ==
    /\ component = "renderChart"
    /\ UNCHANGED <<component, cmVars, sanVars, stVars, fmVars, dlVars>>
    /\ t \in crItemTimers
    /\ i \in t.start..(t.end - 1)
    /\ crForeignChart' = (crForeignChart
                            \/ (containerExists(crBatches, i) /\ t.gen # allSymbols.gen))
    /\ crLastOp' = "renderChart"
    /\ UNCHANGED <<currentBatchIndex, isLoadingBatch, allSymbols, observer,
                   observedAttached, sentinel, batchPending, gridPending, crGeneration,
                   crBatches, crResetSnapshot, crItemTimers>>

\* Every timer set for the list t.gen has fired
crItemTimersDone(t) ==
    /\ component = "renderChart"
    /\ UNCHANGED <<component, cmVars, sanVars, stVars, fmVars, dlVars>>
    /\ t \in crItemTimers
    /\ crItemTimers' = crItemTimers \ {t}
    /\ crLastOp' = "crItemTimersDone"
    /\ UNCHANGED <<currentBatchIndex, isLoadingBatch, allSymbols, observer,
                   observedAttached, sentinel, batchPending, gridPending, crGeneration,
                   crBatches, crResetSnapshot, crForeignChart>>


\* ---------------------------------------------------- sanitizeAndSortPoints

\* A JavaScript value: a finite number (k = "num", v its value), negative zero,
\* NaN, an infinity, null, undefined, or a numeric string spelling v
Num(v) == [k |-> "num", v |-> v]
NegZero == [k |-> "negzero", v |-> 0]
NaN == [k |-> "nan", v |-> 0]
Infinity == [k |-> "inf", v |-> 0]
Null == [k |-> "null", v |-> 0]
Undefined == [k |-> "undef", v |-> 0]
Str(v) == [k |-> "str", v |-> v]

\* A point object {time, value}, or a missing one (null / undefined list entry)
Pt(t, v) == [nil |-> FALSE, time |-> t, value |-> v]
NoPt == [nil |-> TRUE, time |-> Undefined, value |-> Undefined]

\* The points the lists are drawn from
Points ==
    {Pt(Num(t), Num(v)) : t \in {3, 5}, v \in {1, 2, 9}}
    \cup {NoPt, Pt(Num(10), Num(1)), Pt(Num(-1), Num(2)), Pt(NegZero, Num(1)),
          Pt(Num(0), Num(2)), Pt(NaN, Num(1)), Pt(Num(3), Infinity),
          Pt(Null, Num(1)), Pt(Str(5), Num(9)), Pt(Num(5), Undefined)}

\* Number.isFinite(x): true of numbers only, and not of NaN or an infinity
NumberIsFinite(x) == x.k \in {"num", "negzero"}

\* Number(x): numbers unchanged, null is 0, undefined is NaN, a numeric string
\* is the number it spells
JSNumber(x) ==
    CASE x.k = "null" -> Num(0)
      [] x.k = "undef" -> NaN
      [] x.k = "str" -> Num(x.v)
      [] OTHER -> x

\* The numeric value of a finite number (-0 and 0 are the same number)
NumVal(x) == x.v

Digits == <<"0", "1", "2", "3", "4", "5", "6", "7", "8", "9">>

RECURSIVE NatToString(_)
NatToString(n) ==
    IF n < 10 THEN <<Digits[n + 1]>>
    ELSE NatToString(n \div 10) \o <<Digits[(n % 10) + 1]>>

\* String(t) of a finite number, as a property key: -0 spells "0"
NumberToString(x) ==
    IF x.k = "negzero" THEN <<"0">>
    ELSE IF x.v < 0 THEN <<"-">> \o NatToString(-x.v)
    ELSE NatToString(x.v)

DigitValue(c) == (CHOOSE i \in 1..10 : Digits[i] = c) - 1

RECURSIVE StringToNat(_)
StringToNat(str) ==
    IF str = <<>> THEN 0
    ELSE 10 * StringToNat(SubSeq(str, 1, Len(str) - 1)) + DigitValue(str[Len(str)])

\* Number(k) of a property key
StringToNumber(str) ==
    IF str[1] = "-" THEN 0 - StringToNat(Tail(str)) ELSE StringToNat(str)

\* Mutant: an existing property is not overwritten (first write wins)
mapSet_keepFirst(m, key, pt) ==
    IF \E i \in 1..Len(m) : m[i].key = key
    THEN m
    ELSE Append(m, [key |-> key, pt |-> pt])

\* map[key] = pt on an object kept as the list of its properties in creation
\* order: an existing property keeps its place
mapSet(m, key, pt) ==
    IF \E i \in 1..Len(m) : m[i].key = key
    THEN [i \in 1..Len(m) |-> IF m[i].key = key THEN [key |-> key, pt |-> pt] ELSE m[i]]
    ELSE Append(m, [key |-> key, pt |-> pt])

\* map[key]
mapGet(m, key) == m[CHOOSE i \in 1..Len(m) : m[i].key = key].pt

\* s with x put after the elements not greater than it (s ascending)
insertAscending(x, s) ==
    LET k == Cardinality({i \in 1..Len(s) : s[i] <= x})
    IN  SubSeq(s, 1, k) \o <<x>> \o SubSeq(s, k + 1, Len(s))

\* .sort((a, b) => a - b) of a list of numbers
RECURSIVE sortAscending(_)
sortAscending(s) ==
    IF s = <<>> THEN <<>>
    ELSE insertAscending(s[Len(s)], sortAscending(SubSeq(s, 1, Len(s) - 1)))

SelectSeqKeys(m, wantIndex) ==
    LET F[i \in 0..Len(m)] ==
            IF i = 0 THEN <<>>
            ELSE IF (m[i].key[1] # "-") = wantIndex THEN Append(F[i - 1], m[i].key)
            ELSE F[i - 1]
    IN  F[Len(m)]

\* Object.keys(map): the integer-like keys in ascending order, then the other
\* keys in creation order
objectKeys(m) ==
    LET idx == SelectSeqKeys(m, TRUE)
        sortedIdx == sortAscending([i \in 1..Len(idx) |-> StringToNat(idx[i])])
    IN  [i \in 1..Len(idx) |-> NatToString(sortedIdx[i])] \o SelectSeqKeys(m, FALSE)

\* chartsManager.js:178-185 (convert = FALSE) and part_004:110-117 (convert =
\* TRUE, where time and value first go through Number()): the loop that fills map
RECURSIVE fillMap(_, _, _)
fillMap(pts, n, convert) ==
    IF n = 0 THEN <<>>
    ELSE LET m == fillMap(pts, n - 1, convert)
             p == pts[n]
             t == IF convert THEN JSNumber(p.time) ELSE p.time
             v == IF convert THEN JSNumber(p.value) ELSE p.value
         IN  IF p.nil THEN m
             ELSE IF ~NumberIsFinite(t) \/ ~NumberIsFinite(v) THEN m
             ELSE mapSet(m, NumberToString(t), Pt(t, v))

\* chartsManager.js:186-187 and part_004:118-119: the sorted keys, then their points
sortedValues(m) ==
    LET ks == objectKeys(m)
        keys == sortAscending([i \in 1..Len(ks) |-> StringToNumber(ks[i])])
    IN  [i \in 1..Len(keys) |-> mapGet(m, NumberToString(Num(keys[i])))]

\* Mutant: the loop stops one point short of the end of the list
sanitizeAndSortPoints_skipLast(pts) ==
    sortedValues(fillMap(pts, IF Len(pts) > 0 THEN Len(pts) - 1 ELSE 0, FALSE))

\* chartsManager.js:176-188
sanitizeAndSortPoints(pts) == sortedValues(fillMap(pts, Len(pts), FALSE))

\* part_004:108-120
sanitizeAndSortPointsNumber(pts) == sortedValues(fillMap(pts, Len(pts), TRUE))

\* A caller builds the list of points
pushPoint(p) ==
    /\ component = "sanitizeAndSortPoints"
    /\ UNCHANGED <<component, cmVars, crVars, stVars, fmVars, dlVars>>
    /\ sanPhase = "input"
    /\ Len(points) < MaxLen
    /\ points' = Append(points, p)
    /\ UNCHANGED <<clean, cleanAgain, cleanNum, cleanNumAgain, sanPhase>>

\* clean = this.sanitizeAndSortPoints(points) (chartsManager.js:225, part_004:276)
sanitize ==
    /\ component = "sanitizeAndSortPoints"
    /\ UNCHANGED <<component, cmVars, crVars, stVars, fmVars, dlVars>>
    /\ sanPhase = "input"
    /\ clean' = sanitizeAndSortPoints(points)
    /\ cleanNum' = sanitizeAndSortPointsNumber(points)
    /\ sanPhase' = "once"
    /\ UNCHANGED <<points, cleanAgain, cleanNumAgain>>

\* the result is sanitized again
sanitizeAgain ==
    /\ component = "sanitizeAndSortPoints"
    /\ UNCHANGED <<component, cmVars, crVars, stVars, fmVars, dlVars>>
    /\ sanPhase = "once"
    /\ cleanAgain' = sanitizeAndSortPoints(clean)
    /\ cleanNumAgain' = sanitizeAndSortPointsNumber(cleanNum)
    /\ sanPhase' = "twice"
    /\ UNCHANGED <<points, clean, cleanNum>>

\* ------------------------------------------------------ addSupertrendSeries

\* parseFloat of a field: a number is itself, null and undefined give NaN, a
\* numeric string gives the number it spells
parseFloat(x) ==
    CASE x.k \in {"null", "undef"} -> NaN
      [] x.k = "str" -> Num(x.v)
      [] OTHER -> x

\* isNaN(x): whether Number(x) is NaN
isNaN(x) == JSNumber(x).k = "nan"

\* Timestamps are numbered from 1, the number being the time; 0 stands for a
\* timestamp that does not parse
\* new Date(timestamp), as the number it compares and subtracts as
newDate(timestamp) == IF timestamp = 0 THEN NaN ELSE Num(timestamp)

\* A candle: the raw indicator value of the role and its direction tag
Candle(v, d) == [value |-> v, dir |-> Num(d)]

\* The candle with its timestamp column. Timestamps count the seconds of local
\* time (Math.floor((tsRaw + 19800000) / 1000)) from 1; 0 stands for a
\* timestamp that does not parse
Stamped(c, ts) == [value |-> c.value, dir |-> c.dir, timestamp |-> ts]

\* The candles of a series whose timestamps may repeat, go back or not parse
StampedCandles ==
    {Stamped(Candle(v, d), ts) :
        v \in {Num(10), Num(12), NaN}, d \in {1, -1}, ts \in 0..MaxTime}

\* The candles the series are drawn from
Candles ==
    {Candle(Num(10), 1), Candle(Num(10), -1), Candle(Num(12), -1),
     Candle(Num(9), 1), Candle(NaN, 1), Candle(Null, -1), Candle(Infinity, 1)}

\* dir = null, seg = [], all = [], prev = null
segInit == [dir |-> Null, seg |-> <<>>, all |-> <<>>, prev |-> Null]

\* Mutant: a new segment starts empty
segBoundary_none(seg) == <<>>

\* The copy of the boundary point a new segment starts with
\* (seg = seg.length ? [seg[seg.length - 1]] : [])
segBoundary(seg) == IF seg # <<>> THEN <<seg[Len(seg)]>> ELSE <<>>

\* The part of the loop body that follows the skip tests, for a candle of time
\* t, value val and tag d; step tells whether the variant adds the step point,
\* isLast whether its test for the last element holds
segStep(st, t, val, d, step, isLast) ==
    LET changed == st.dir = Null \/ st.dir # d
        all1 == IF changed /\ st.seg # <<>>
                THEN Append(st.all, [data |-> st.seg, dir |-> st.dir])
                ELSE st.all
        seg1 == IF changed THEN segBoundary(st.seg) ELSE st.seg
        seg2 == IF step /\ st.prev # Null /\ st.prev # val /\ seg1 # <<>>
                THEN Append(seg1, Pt(t, st.prev))
                ELSE seg1
        seg3 == Append(seg2, Pt(t, val))
        all2 == IF isLast /\ seg3 # <<>>
                THEN Append(all1, [data |-> seg3, dir |-> d])
                ELSE all1
    IN  [dir |-> d, seg |-> seg3, all |-> all2, prev |-> val]

\* chartsManager.js:199-221: a candle whose timestamp does not parse or whose
\* parsed value is not finite is skipped by `continue`, before the flush test
\* i === candles.length - 1; the time of a point is tt = t - 1
RECURSIVE segLoop(_, _)
segLoop(cs, n) ==
    IF n = 0 THEN segInit
    ELSE LET st == segLoop(cs, n - 1)
             tsRaw == newDate(cs[n].timestamp)
             val == parseFloat(cs[n].value)
         IN  IF ~NumberIsFinite(tsRaw) \/ ~NumberIsFinite(val) THEN st
             ELSE segStep(st, Num(NumVal(tsRaw) - 1), val, cs[n].dir, TRUE,
                          n = Len(cs))

\* chartsManager.js:256: the tag of a band segment is a colour,
\* d === 1 ? colorA : colorB
newOp(d) == IF d = Num(1) THEN Str(1) ELSE Str(2)

\* chartsManager.js:247-271: the loop of addBandSeries for one band: as the
\* loop above, with the colour for tag and prev = null at every change of it
RECURSIVE segLoopBand(_, _)
segLoopBand(cs, n) ==
    IF n = 0 THEN segInit
    ELSE LET st == segLoopBand(cs, n - 1)
             tsRaw == newDate(cs[n].timestamp)
             val == parseFloat(cs[n].value)
             op == newOp(cs[n].dir)
             reset == IF st.dir = Null \/ st.dir # op
                      THEN [st EXCEPT !.prev = Null]
                      ELSE st
         IN  IF ~NumberIsFinite(tsRaw) \/ ~NumberIsFinite(val) THEN st
             ELSE segStep(reset, Num(NumVal(tsRaw) - 1), val, op, TRUE,
                          n = Len(cs))

\* chartsManager.js:567-604: the same with the skip test isNaN(value) and a
\* return from the forEach callback
RECURSIVE segLoopEarlier(_, _)
segLoopEarlier(cs, n) ==
    IF n = 0 THEN segInit
    ELSE LET st == segLoopEarlier(cs, n - 1)
             val == parseFloat(cs[n].value)
         IN  IF isNaN(val) THEN st
             ELSE segStep(st, Num(n), val, cs[n].dir, TRUE, n = Len(cs))

\* part_004:133-151: the time of the candle at place n of the candles in the
\* candlestick series, ohlcIndexed.push({ time: i, ... }) with i from 0
ohlcTime(n) == n - 1

\* part_004:231-241: the rows with a timestamp that parses and a finite value,
\* numbered from 0
RECURSIVE rowsOf(_, _)
rowsOf(cs, n) ==
    IF n = 0 THEN <<>>
    ELSE LET rows == rowsOf(cs, n - 1)
             tsRaw == newDate(cs[n].timestamp)
             val == parseFloat(cs[n].value)
         IN  IF ~NumberIsFinite(tsRaw) \/ ~NumberIsFinite(val) THEN rows
             ELSE Append(rows, [index |-> Len(rows), value |-> val, dir |-> cs[n].dir])

\* part_004:245-249: twice the anchor (t0 + t1) / 2 of row i, so that the
\* half-way times stay integers
anchorTwice(rows, i) ==
    LET t0 == rows[i].index
        d == rows[i].index - rows[i - 1].index
        t1 == IF i < Len(rows) THEN rows[i + 1].index
              ELSE IF i > 1 THEN rows[i].index + (IF d > 1 THEN d ELSE 1)
              ELSE rows[i].index + 1
    IN  t0 + t1

\* part_004:256-272: the loop over the rows
RECURSIVE segLoopRows(_, _)
segLoopRows(rows, n) ==
    IF n = 0 THEN segInit
    ELSE segStep(segLoopRows(rows, n - 1), Num(anchorTwice(rows, n)),
                 rows[n].value, rows[n].dir, TRUE, n = Len(rows))

\* part_004:274-276: the points of a segment as they are handed to setData
segmentPts(seg) == sanitizeAndSortPoints(seg.data)

\* chartRenderer.js:215-231: the candles whose raw value is neither null nor
\* NaN, as {time, value, direction}
RECURSIVE supertrendData(_, _)
supertrendData(cs, n) ==
    IF n = 0 THEN <<>>
    ELSE LET data == supertrendData(cs, n - 1)
             stValue == cs[n].value
         IN  IF stValue.k \in {"null", "undef"} \/ isNaN(stValue) THEN data
             ELSE Append(data, [time |-> Num(n), value |-> parseFloat(stValue),
                                direction |-> cs[n].dir])

\* chartRenderer.js:233-263: the loop over supertrendData, without step points
RECURSIVE segLoopRenderChart(_, _)
segLoopRenderChart(data, n) ==
    IF n = 0 THEN segInit
    ELSE segStep(segLoopRenderChart(data, n - 1), data[n].time, data[n].value,
                 data[n].direction, FALSE, n = Len(data))

\* Mutant: the segments are handed over as the loop built them
setData_raw(all) == [j \in 1..Len(all) |-> all[j].data]

\* chartsManager.js:223-238 and 273-287: the point lists handed to setData, one
\* for every segment whose sanitized list is not empty
setData(all) ==
    SelectSeq([j \in 1..Len(all) |-> sanitizeAndSortPoints(all[j].data)],
              LAMBDA clean_ : clean_ # <<>>)

\* A caller builds the candle series, in time order: the timestamp of a
\* candle is its place in the series
pushCandle(c) ==
    /\ component = "addSupertrendSeries"
    /\ UNCHANGED <<component, cmVars, crVars, sanVars, fmVars, dlVars>>
    /\ stPhase = "input"
    /\ Len(candles) < MaxCandles
    /\ candles' = Append(candles, Stamped(c, Len(candles) + 1))
    /\ UNCHANGED <<segments, segmentsEarlier, segmentsRows, segmentsRenderChart,
                   segmentsBand, stPhase>>

\* A caller builds a candle series with any timestamps
pushStampedCandle(c) ==
    /\ component = "addBandSeries"
    /\ UNCHANGED <<component, cmVars, crVars, sanVars, fmVars, dlVars>>
    /\ stPhase = "input"
    /\ Len(candles) < MaxStamped
    /\ candles' = Append(candles, c)
    /\ UNCHANGED <<segments, segmentsEarlier, segmentsRows, segmentsRenderChart,
                   segmentsBand, stPhase>>

\* addSupertrendSeries(chart, candles, type) in its four variants
addSupertrendSeries ==
    /\ component = "addSupertrendSeries"
    /\ UNCHANGED <<component, cmVars, crVars, sanVars, fmVars, dlVars>>
    /\ stPhase = "input"
    /\ segments' = segLoop(candles, Len(candles)).all
    /\ segmentsEarlier' = segLoopEarlier(candles, Len(candles)).all
    /\ segmentsRows' =
          LET rows == rowsOf(candles, Len(candles))
          IN  segLoopRows(rows, Len(rows)).all
    /\ segmentsRenderChart' =
          LET data == supertrendData(candles, Len(candles))
          IN  segLoopRenderChart(data, Len(data)).all
    /\ segmentsBand' = segLoopBand(candles, Len(candles)).all
    /\ stPhase' = "done"
    /\ UNCHANGED candles

\* chartsManager.js:145-147: the series of one chart, addSupertrendSeries and
\* addBandSeries on the candles of the symbol
addBandSeries ==
    /\ component = "addBandSeries"
    /\ UNCHANGED <<component, cmVars, crVars, sanVars, fmVars, dlVars>>
    /\ stPhase = "input"
    /\ segments' = segLoop(candles, Len(candles)).all
    /\ segmentsBand' = segLoopBand(candles, Len(candles)).all
    /\ stPhase' = "charted"
    /\ UNCHANGED <<candles, segmentsEarlier, segmentsRows, segmentsRenderChart>>

\* ---------------------------------------------------------- FiltersManager

\* Whether a value is falsy (!x): undefined, null, 0, -0 and NaN
falsy(x) == x.k \in {"undef", "null", "nan", "negzero"} \/ (x.k = "num" /\ x.v = 0)

\* x || 0
orZero(x) == IF falsy(x) THEN Num(0) ELSE x

\* a < b on two values: both go through Number(), and a comparison with NaN is
\* false (the values of the model are finite numbers, null and undefined)
jsLess(a, b) ==
    /\ NumberIsFinite(JSNumber(a))
    /\ NumberIsFinite(JSNumber(b))
    /\ NumVal(JSNumber(a)) < NumVal(JSNumber(b))

\* |x|
Abs(x) == IF x < 0 THEN 0 - x ELSE x

\* Math.abs((close - lowerband) / close * 100), in hundredths and rounded to the
\* nearest hundredth as toFixed(2) rounds it; NaN when an operand is not a number
pctDiffHundredths(close, lowerband) ==
    LET c == JSNumber(close)
        l == JSNumber(lowerband)
    IN  IF ~NumberIsFinite(c) \/ ~NumberIsFinite(l) \/ NumVal(c) = 0 THEN NaN
        ELSE Num((2 * Abs(NumVal(c) - NumVal(l)) * 10000 + Abs(NumVal(c)))
                    \div (2 * Abs(NumVal(c))))

\* x.toFixed(2) of a non-negative number given in hundredths: its decimal string
toFixed2(h) ==
    IF h.k = "nan" THEN <<"N", "a", "N">>
    ELSE NatToString(h.v \div 100) \o <<".">>
            \o <<Digits[((h.v % 100) \div 10) + 1], Digits[(h.v % 10) + 1]>>

\* parseFloat of such a string, in hundredths
parseFloat2(str) ==
    IF str[1] = "N" THEN NaN
    ELSE LET dot == CHOOSE i \in 1..Len(str) : str[i] = "."
         IN  Num(100 * StringToNat(SubSeq(str, 1, dot - 1))
                 + StringToNat(SubSeq(str, dot + 1, Len(str))))

\* A data row: one candle of one symbol with the columns detectSignals reads
Row(sym, ts, c) ==
    [trading_symbol |-> sym, timestamp |-> ts, market_cap |-> c.market_cap,
     biggerDirection |-> c.biggerDirection, shorterDirection |-> c.shorterDirection,
     close |-> c.close, shorterUpperband |-> c.shorterUpperband,
     shorterLowerband |-> c.shorterLowerband,
     shorterSupertrend |-> c.shorterSupertrend]

\* A candle above the market-cap floor, bullish in both roles, closed at 100
\* above its upper band 90, with lower band 98 and indicator value 95
baseCandle ==
    [market_cap |-> Num(20000), biggerDirection |-> Num(-1),
     shorterDirection |-> Num(-1), close |-> Num(100), shorterUpperband |-> Num(90),
     shorterLowerband |-> Num(98), shorterSupertrend |-> Num(95)]

\* The candles the rows of several symbols are drawn from
RowCandles ==
    {baseCandle,
     [baseCandle EXCEPT !.close = Num(40), !.shorterLowerband = Num(39),
                        !.shorterUpperband = Num(50)],
     [baseCandle EXCEPT !.shorterLowerband = Num(99)],
     [baseCandle EXCEPT !.shorterLowerband = Num(0)],
     [baseCandle EXCEPT !.biggerDirection = Num(1)],
     [baseCandle EXCEPT !.market_cap = Num(5000)],
     [baseCandle EXCEPT !.shorterLowerband = Undefined],
     [baseCandle EXCEPT !.close = Undefined],
     [baseCandle EXCEPT !.shorterDirection = Undefined]}

\* The candles the history of one symbol is drawn from: without a breakout
\* (closed below the upper band), and with one
HistoryCandles ==
    {[baseCandle EXCEPT !.shorterUpperband = Num(110)], baseCandle}

\* The latest candle of that history: one of those, or a candle that closed
\* below the indicator value 105 with a bearish fast direction
LatestCandles ==
    HistoryCandles
    \cup {[baseCandle EXCEPT !.shorterUpperband = Num(110),
                             !.shorterSupertrend = Num(105),
                             !.shorterDirection = Num(1)]}

\* The filters the calls are made with: timeframe, strategy, market-cap floor
\* and the percentage threshold in hundredths (2.5 and 100); the last two name
\* a timeframe none of the branches of filters.js:75-81 knows, and a strategy
\* neither branch of filters.js:149-157 knows
FilterSets ==
    {[timeframe |-> "daily", strategy |-> "volatility_support", mcap |-> 10000,
      pctDiff |-> 250],
     [timeframe |-> "daily", strategy |-> "volatility_support", mcap |-> 10000,
      pctDiff |-> 10000],
     [timeframe |-> "min125", strategy |-> "volatility_breakout", mcap |-> 10000,
      pctDiff |-> 250],
     [timeframe |-> "weekly", strategy |-> "volatility_support", mcap |-> 10000,
      pctDiff |-> 10000],
     [timeframe |-> "daily", strategy |-> "momentum", mcap |-> 10000,
      pctDiff |-> 10000]}

\* CONFIG.STRATEGY_CONFIGS: the timeframe keys that have a pair of indicator
\* roles (the columns of the pair are the fields bigger... and shorter... of Row)
STRATEGY_CONFIGS == {"daily", "min125", "min60"}

\* filters.js:74-81: the key the timeframe is looked up by, "undefined" when no
\* branch assigns it
timeframeKey(timeframe) ==
    IF timeframe \in {"daily", "min125", "min60"} THEN timeframe ELSE "undefined"

\* cmp(a, b) > 0 for a comparator that subtracts the key of b from the key of a:
\* a difference that is NaN counts as 0
keyAfter(a, b) == NumberIsFinite(a) /\ NumberIsFinite(b) /\ NumVal(a) > NumVal(b)

\* idx (places of the array, sorted) with the place x put behind the last place
\* whose key is not after the key of x: one step of a stable insertion sort
insertBy(x, idx, keys) ==
    LET k == CHOOSE j \in 0..Len(idx) :
                /\ \A i \in (j + 1)..Len(idx) : keyAfter(keys[idx[i]], keys[x])
                /\ j > 0 => ~keyAfter(keys[idx[j]], keys[x])
    IN  SubSeq(idx, 1, k) \o <<x>> \o SubSeq(idx, k + 1, Len(idx))

\* array.sort((a, b) => key(a) - key(b)), keys[i] being the key of s[i]: stable
sortBy(s, keys) ==
    LET F[i \in 0..Len(s)] ==
            IF i = 0 THEN <<>> ELSE insertBy(i, F[i - 1], keys)
        idx == F[Len(s)]
    IN  [i \in 1..Len(s) |-> s[idx[i]]]

\* Symbols are numbered from 1; 0 stands for the empty string and -1 for a row
\* without the column (undefined)
\* Mutant: no symbol counts as missing
symbolMissing_never(symbol) == FALSE

\* filters.js:107, config.js:461, dataLoader.js:296: !symbol
symbolMissing(symbol) == symbol \in {0, -1}

\* Mutant: the map never holds the symbol
mapHas_never(m, symbol) == FALSE

\* filters.js:109 dataBySymbol.has(symbol), dataLoader.js:300
\* latestMap.has(symbol): the map has an entry for the symbol
mapHas(m, symbol) == \E i \in 1..Len(m) : m[i].symbol = symbol

\* filters.js:104-113 (and config.js:457-466): the rows grouped by symbol, in
\* the order the symbols first appear; a row without a symbol is left out
RECURSIVE groupBySymbol(_, _)
groupBySymbol(data, n) ==
    IF n = 0 THEN <<>>
    ELSE LET m == groupBySymbol(data, n - 1)
             row == data[n]
         IN  IF symbolMissing(row.trading_symbol) THEN m
             ELSE IF mapHas(m, row.trading_symbol)
             THEN [i \in 1..Len(m) |->
                      IF m[i].symbol = row.trading_symbol
                      THEN [m[i] EXCEPT !.candles = Append(@, row)]
                      ELSE m[i]]
             ELSE Append(m, [symbol |-> row.trading_symbol, candles |-> <<row>>])

\* filters.js:124: candles.sort((a, b) => new Date(a.timestamp) - new Date(b.timestamp))
sortByTimestamp(cs) == sortBy(cs, [i \in 1..Len(cs) |-> newDate(cs[i].timestamp)])

\* Mutant: the window holds the last 11 candles
last10Candles_eleven(cs) == SubSeq(cs, IF Len(cs) > 11 THEN Len(cs) - 10 ELSE 1, Len(cs))

\* filters.js:205: candles.slice(-10)
last10Candles(cs) == SubSeq(cs, IF Len(cs) > 10 THEN Len(cs) - 9 ELSE 1, Len(cs))

\* Mutant: the removal condition is never met
removalCondition_never(latestCandle) == FALSE

\* filters.js:235: the latest candle closed below the fast indicator value and
\* its fast direction is 1
removalCondition(latestCandle) ==
    /\ jsLess(latestCandle.close, latestCandle.shorterSupertrend)
    /\ latestCandle.shorterDirection = Num(1)

\* filters.js:203-241
checkVolatilityBreakout(cs, latestCandle) ==
    LET w == last10Candles(cs)
        breakoutFound ==
            \E i \in 1..Len(w) :
                /\ w[i].shorterDirection = Num(-1)
                /\ jsLess(w[i].shorterUpperband, w[i].close)
    IN  breakoutFound /\ ~removalCondition(latestCandle)

\* filters.js:258-260: Math.abs((close - lowerband) / close) * 100 <= pctDiff for
\* two non-zero numbers, pctDiff given in hundredths
supportWithin(close, lowerband, pctDiff) ==
    Abs(NumVal(close) - NumVal(lowerband)) * 10000 <= pctDiff * Abs(NumVal(close))

\* filters.js:249-261
checkVolatilitySupport(latestCandle, pctDiff) ==
    LET close == latestCandle.close
        lowerband == latestCandle.shorterLowerband
    IN  IF falsy(lowerband) \/ falsy(close) THEN FALSE
        ELSE supportWithin(close, lowerband, pctDiff)

\* Mutant: the baseline test on the slow direction is left out
baselineBullish_any(latestCandle) == TRUE

\* filters.js:142: the slow direction of the latest candle is -1
baselineBullish(latestCandle) == latestCandle.biggerDirection = Num(-1)

\* filters.js:121-180: what the forEach callback does for one symbol: "skip"
\* (return), "signal" (signals.push) or "throw" (close.toFixed on a close that
\* is undefined or null)
detectSymbol(symbol, rows, filters) ==
    LET cs == sortByTimestamp(rows)
        latestCandle == cs[Len(cs)]
        marketCap == orZero(latestCandle.market_cap)
        signalGenerated ==
            CASE filters.strategy = "volatility_breakout" ->
                    checkVolatilityBreakout(cs, latestCandle)
              [] filters.strategy = "volatility_support" ->
                    checkVolatilitySupport(latestCandle, filters.pctDiff)
              [] OTHER -> FALSE
    IN  IF NumVal(marketCap) < filters.mcap THEN [kind |-> "skip"]
        ELSE IF latestCandle.biggerDirection = Undefined
                \/ latestCandle.shorterDirection = Undefined THEN [kind |-> "skip"]
        ELSE IF ~baselineBullish(latestCandle) THEN [kind |-> "skip"]
        ELSE IF ~signalGenerated THEN [kind |-> "skip"]
        ELSE IF latestCandle.close.k \in {"undef", "null"} THEN [kind |-> "throw"]
        ELSE [kind |-> "signal",
              signal |-> [symbol |-> symbol,
                          close |-> toFixed2(Num(100 * NumVal(latestCandle.close))),
                          pctDiff |-> toFixed2(pctDiffHundredths(latestCandle.close,
                                                   latestCandle.shorterLowerband)),
                          marketCap |-> marketCap,
                          timestamp |-> latestCandle.timestamp]]

\* filters.js:189: the keys of (a, b) => parseFloat(a.pctDiff) - parseFloat(b.pctDiff)
pctDiffKeys(list) == [i \in 1..Len(list) |-> parseFloat2(list[i].pctDiff)]

\* filters.js:115-181: the loop over the symbols; a throw ends it
RECURSIVE detectLoop(_, _, _)
detectLoop(groups, n, filters) ==
    IF n = 0 THEN [threw |-> FALSE, list |-> <<>>]
    ELSE LET acc == detectLoop(groups, n - 1, filters)
             r == detectSymbol(groups[n].symbol, groups[n].candles, filters)
         IN  IF acc.threw \/ r.kind = "skip" THEN acc
             ELSE IF r.kind = "throw" THEN [threw |-> TRUE, list |-> <<>>]
             ELSE [threw |-> FALSE, list |-> Append(acc.list, r.signal)]

\* filters.js:66-192: detectSignals(data, filters): [] for a timeframe without a
\* strategy config (line 84-87), else the sorted signals, or the TypeError it
\* ends with
detectSignals(data, filters) ==
    LET groups == groupBySymbol(data, Len(data))
        r == detectLoop(groups, Len(groups), filters)
    IN  IF timeframeKey(filters.timeframe) \notin STRATEGY_CONFIGS
        THEN [threw |-> FALSE, list |-> <<>>]
        ELSE IF r.threw THEN r
        ELSE [threw |-> FALSE, list |-> sortBy(r.list, pctDiffKeys(r.list))]

\* s in reverse order
Reverse(s) == [i \in 1..Len(s) |-> s[Len(s) + 1 - i]]

\* The symbols of a list of rows
symbolsOf(rows) == {rows[i].trading_symbol : i \in 1..Len(rows)}

\* A caller adds a row to the data: a candle of a symbol already present or of
\* the next new symbol, later than the rows before it
pushRow(sym, c) ==
    /\ component = "detectSignals"
    /\ UNCHANGED <<component, cmVars, crVars, sanVars, stVars, dlVars>>
    /\ fmPhase = "input"
    /\ Len(fmData) < MaxRows
    /\ sym \in 1..(Cardinality(symbolsOf(fmData)) + 1)
    /\ fmData' = Append(fmData, Row(sym, Len(fmData) + 1, c))
    /\ UNCHANGED <<fmFilters, fmSignals, fmPhase>>

\* filtersManager.detectSignals(data, filters) (main.js:123), the rows given in
\* time order or in the reverse order
callDetectSignals(f, reversed) ==
    /\ component = "detectSignals"
    /\ UNCHANGED <<component, cmVars, crVars, sanVars, stVars, dlVars>>
    /\ fmPhase = "input"
    /\ fmData' = IF reversed THEN Reverse(fmData) ELSE fmData
    /\ fmFilters' = f
    /\ fmSignals' = detectSignals(fmData', f)
    /\ fmPhase' = "done"

\* A caller adds an older candle to the history of one symbol
pushHistory(c) ==
    /\ component = "checkVolatilityBreakout"
    /\ UNCHANGED <<component, cmVars, crVars, sanVars, stVars, dlVars>>
    /\ fmPhase = "input"
    /\ Len(fmData) < MaxHistory
    /\ fmData' = Append(fmData, Row(1, Len(fmData) + 1, c))
    /\ UNCHANGED <<fmFilters, fmSignals, fmPhase>>

\* detectSignals with the breakout strategy on that history followed by its
\* latest candle
callDetectBreakout(latest, reversed) ==
    /\ component = "checkVolatilityBreakout"
    /\ UNCHANGED <<component, cmVars, crVars, sanVars, stVars, dlVars>>
    /\ fmPhase = "input"
    /\ LET rows == Append(fmData, Row(1, Len(fmData) + 1, latest))
       IN  fmData' = IF reversed THEN Reverse(rows) ELSE rows
    /\ fmFilters' = [timeframe |-> "daily", strategy |-> "volatility_breakout",
                     mcap |-> 10000, pctDiff |-> 250]
    /\ fmSignals' = detectSignals(fmData', fmFilters')
    /\ fmPhase' = "done"

\* x.toFixed(2) of a number given in hundredths, with its sign
toFixed2Signed(h) ==
    IF h.k = "num" /\ h.v < 0 THEN <<"-">> \o toFixed2(Num(0 - h.v)) ELSE toFixed2(h)

\* Math.abs(parseFloat(str)) of such a string, in hundredths
absParseFloat2(str) ==
    IF str[1] = "-" THEN parseFloat2(Tail(str)) ELSE parseFloat2(str)

\* A data row with the columns applyFilters and filterSymbolsForCharts read for
\* the selected supertrend; pct is in hundredths
LegacyRow(sym, ts, c) ==
    [trading_symbol |-> sym, timestamp |-> ts, market_cap |-> c.market_cap,
     direction |-> c.direction, supertrend |-> c.supertrend, pct |-> c.pct,
     flatbase |-> c.flatbase, close |-> c.close, sector |-> c.sector,
     industry |-> c.industry]

\* A long candle above the market-cap floor with pct 1.50 and flatbase 5
baseLegacy ==
    [market_cap |-> Num(20000), direction |-> Num(-1), supertrend |-> Num(95),
     pct |-> Num(150), flatbase |-> Num(5), close |-> Num(100), sector |-> "IT",
     industry |-> "Software"]

\* The candles the rows of the legacy calls are drawn from
LegacyCandles ==
    {baseLegacy,
     [baseLegacy EXCEPT !.direction = Num(1), !.pct = Num(-100)],
     [baseLegacy EXCEPT !.pct = Num(-200)],
     [baseLegacy EXCEPT !.direction = Num(1), !.pct = Num(250)],
     [baseLegacy EXCEPT !.close = Undefined],
     [baseLegacy EXCEPT !.supertrend = Undefined],
     [baseLegacy EXCEPT !.supertrend = Null],
     [baseLegacy EXCEPT !.flatbase = Num(2)],
     [baseLegacy EXCEPT !.pct = Undefined],
     [baseLegacy EXCEPT !.sector = "Pharma"],
     [baseLegacy EXCEPT !.direction = Num(1), !.industry = "Hardware"]}

\* The filters of the legacy calls: pct ceiling 2.5 in hundredths; any sector
\* and industry, one sector, or one industry
LegacyFilterSets ==
    {[strategy |-> "legacy", chartType |-> t, sector |-> "All", industry |-> "All",
      mcap |-> 10000, pctDiff |-> 250, flatbase |-> 3] : t \in {"Long", "Short"}}
    \cup {[strategy |-> "legacy", chartType |-> "Long", sector |-> "IT",
           industry |-> "All", mcap |-> 10000, pctDiff |-> 250, flatbase |-> 3],
          [strategy |-> "legacy", chartType |-> "Short", sector |-> "All",
           industry |-> "Software", mcap |-> 10000, pctDiff |-> 250, flatbase |-> 3]}

\* dataLoader.js:288-313: the latest row of each symbol, the symbols in the
\* order they first appear; a row replaces the kept one when it is later
RECURSIVE getLatestCandles(_, _)
getLatestCandles(data, n) ==
    IF n = 0 THEN <<>>
    ELSE LET m == getLatestCandles(data, n - 1)
             row == data[n]
         IN  IF symbolMissing(row.trading_symbol) THEN m
             ELSE IF mapHas(m, row.trading_symbol)
             THEN [i \in 1..Len(m) |->
                      IF m[i].symbol = row.trading_symbol
                         /\ keyAfter(newDate(row.timestamp), newDate(m[i].row.timestamp))
                      THEN [m[i] EXCEPT !.row = row]
                      ELSE m[i]]
             ELSE Append(m, [symbol |-> row.trading_symbol, row |-> row])

\* filters.js:381-384 and 522-525: Math.abs(row[pctCol] || 0) > ceiling fails
pctWithin(row, ceiling) == Abs(NumVal(orZero(row.pct))) <= ceiling

\* filters.js:363-393: passesFilters(row, filters, pctCol, flatbaseCol)
passesFilters(row, filters) ==
    /\ filters.sector = "All" \/ row.sector = filters.sector
    /\ filters.industry = "All" \/ row.industry = filters.industry
    /\ ~(NumVal(orZero(row.market_cap)) < filters.mcap)
    /\ pctWithin(row, filters.pctDiff)
    /\ ~(NumVal(orZero(row.flatbase)) < filters.flatbase)

\* filters.js:295-338: what the forEach callback of applyFilters does for one
\* symbol: "skip", "long", "short", "none" (a direction that is neither -1 nor
\* 1), or "throw" (toFixed on a close or supertrend that is undefined or null)
applySymbol(symbol, row, filters) ==
    IF row.direction = Undefined \/ row.supertrend = Undefined THEN [kind |-> "skip"]
    ELSE IF ~passesFilters(row, filters) THEN [kind |-> "skip"]
    ELSE IF row.close.k \in {"undef", "null"} \/ row.supertrend.k = "null"
         THEN [kind |-> "throw"]
    ELSE [kind |-> CASE row.direction = Num(-1) -> "long"
                     [] row.direction = Num(1) -> "short"
                     [] OTHER -> "none",
          signal |-> [symbol |-> symbol,
                      close |-> toFixed2(Num(100 * NumVal(row.close))),
                      pctDiff |-> toFixed2Signed(orZero(row.pct)),
                      flatbase |-> orZero(row.flatbase),
                      direction |-> row.direction,
                      marketCap |-> orZero(row.market_cap)]]

\* filters.js:349-350: the keys of
\* (a, b) => Math.abs(parseFloat(a.pctDiff)) - Math.abs(parseFloat(b.pctDiff))
absPctDiffKeys(list) == [i \in 1..Len(list) |-> absParseFloat2(list[i].pctDiff)]

\* filters.js:295-338: the loop over the latest candles; a throw ends it
RECURSIVE applyLoop(_, _, _)
applyLoop(latest, n, filters) ==
    IF n = 0 THEN [threw |-> FALSE, long |-> <<>>, short |-> <<>>]
    ELSE LET acc == applyLoop(latest, n - 1, filters)
             r == applySymbol(latest[n].symbol, latest[n].row, filters)
         IN  IF acc.threw \/ r.kind \in {"skip", "none"} THEN acc
             ELSE IF r.kind = "throw"
                  THEN [threw |-> TRUE, long |-> <<>>, short |-> <<>>]
             ELSE IF r.kind = "long"
                  THEN [acc EXCEPT !.long = Append(@, r.signal)]
             ELSE [acc EXCEPT !.short = Append(@, r.signal)]

\* filters.js:270-353: applyFilters(data, filters, supertrendConfig): the two
\* sorted lists, or the TypeError it ends with
applyFilters(data, filters) ==
    LET latest == getLatestCandles(data, Len(data))
        r == applyLoop(latest, Len(latest), filters)
    IN  IF r.threw THEN r
        ELSE [threw |-> FALSE, long |-> sortBy(r.long, absPctDiffKeys(r.long)),
              short |-> sortBy(r.short, absPctDiffKeys(r.short))]

\* filters.js:547-551: the keys Math.abs(a.row[pctCol] || 0)
rowPctKeys(list) == [i \in 1..Len(list) |-> Num(Abs(NumVal(orZero(list[i].row.pct))))]

\* filters.js:496-539: the symbols that pass the chart filters, in map order
RECURSIVE chartsLoop(_, _, _)
chartsLoop(latest, n, chartFilters) ==
    IF n = 0 THEN <<>>
    ELSE LET acc == chartsLoop(latest, n - 1, chartFilters)
             row == latest[n].row
             targetDirection == IF chartFilters.chartType = "Long" THEN Num(-1) ELSE Num(1)
         IN  IF row.direction # targetDirection THEN acc
             ELSE IF ~passesFilters(row, chartFilters) THEN acc
             ELSE Append(acc, [symbol |-> latest[n].symbol,
                               direction |-> targetDirection, row |-> row])

\* filters.js:479-554: filterSymbolsForCharts(data, chartFilters)
filterSymbolsForCharts(data, chartFilters) ==
    LET latest == getLatestCandles(data, Len(data))
        passed == chartsLoop(latest, Len(latest), chartFilters)
    IN  sortBy(passed, rowPctKeys(passed))

\* A caller adds a row to the data of the legacy calls
pushLegacyRow(sym, c) ==
    /\ component = "applyFilters"
    /\ UNCHANGED <<component, cmVars, crVars, sanVars, stVars, dlVars>>
    /\ fmPhase = "input"
    /\ Len(fmData) < MaxRows
    /\ sym \in 1..(Cardinality(symbolsOf(fmData)) + 1)
    /\ fmData' = Append(fmData, LegacyRow(sym, Len(fmData) + 1, c))
    /\ UNCHANGED <<fmFilters, fmSignals, fmPhase>>

\* filtersManager.applyFilters(data, filters, supertrendConfig) (main.js:463) and
\* filtersManager.filterSymbolsForCharts(data, chartFilters) (main.js:216) on the
\* same data
callApplyFilters(f, reversed) ==
    /\ component = "applyFilters"
    /\ UNCHANGED <<component, cmVars, crVars, sanVars, stVars, dlVars>>
    /\ fmPhase = "input"
    /\ fmData' = IF reversed THEN Reverse(fmData) ELSE fmData
    /\ fmFilters' = f
    /\ fmSignals' = [applied |-> applyFilters(fmData', f),
                     charts |-> filterSymbolsForCharts(fmData', f)]
    /\ fmPhase' = "done"

\* ------------------------------------------------------------ specification

\* ------------------------------------------------- the per-symbol index

\* A data row of the index: its symbol, its timestamp and its place in the
\* input, which tells records of one symbol and one timestamp apart
IndexRow(sym, ts, index) == [trading_symbol |-> sym, timestamp |-> ts, index |-> index]

\* config.js:454-475: getDataBySymbol(): the groups, each sorted by timestamp
\* (the columns CONFIG.COLUMNS names are the fields trading_symbol and timestamp)
getDataBySymbol(data) ==
    LET bySymbol == groupBySymbol(data, Len(data))
    IN  [i \in 1..Len(bySymbol) |->
            [symbol |-> bySymbol[i].symbol,
             candles |-> sortByTimestamp(bySymbol[i].candles)]]

\* config.js:481-493: getLatestCandles(): the last candle of every group
DataLoader_getLatestCandles(data) ==
    LET bySymbol == getDataBySymbol(data)
    IN  [i \in 1..Len(bySymbol) |->
            [symbol |-> bySymbol[i].symbol,
             row |-> bySymbol[i].candles[Len(bySymbol[i].candles)]]]

\* dataLoader.js:331-335: getSymbolCandles(data, symbol)
getSymbolCandles(data, symbol) ==
    sortByTimestamp(SelectSeq(data, LAMBDA row : row.trading_symbol = symbol))

\* A caller adds a row to the data: of a symbol already present, of the next
\* new symbol, or without a symbol; with any timestamp
pushIndexRow(sym, ts) ==
    /\ component = "getDataBySymbol"
    /\ UNCHANGED <<component, cmVars, crVars, sanVars, stVars, dlVars>>
    /\ fmPhase = "input"
    /\ Len(fmData) < MaxRows
    /\ sym <= Cardinality(symbolsOf(fmData) \ {0, -1}) + 1
    /\ fmData' = Append(fmData, IndexRow(sym, ts, Len(fmData) + 1))
    /\ UNCHANGED <<fmFilters, fmSignals, fmPhase>>

\* The index is built from the data and every lookup is made: getDataBySymbol
\* and getLatestCandles of config.js, the grouping of filters.js:104-113,
\* getLatestCandles and getSymbolCandles of dataLoader.js
buildIndex ==
    /\ component = "getDataBySymbol"
    /\ UNCHANGED <<component, cmVars, crVars, sanVars, stVars, dlVars>>
    /\ fmPhase = "input"
    /\ fmSignals' =
          [bySymbol |-> getDataBySymbol(fmData),
           latest |-> DataLoader_getLatestCandles(fmData),
           grouped |-> groupBySymbol(fmData, Len(fmData)),
           latestMap |-> getLatestCandles(fmData, Len(fmData)),
           symbolCandles |->
               [sym \in 1..MaxRows |-> getSymbolCandles(fmData, sym)]]
    /\ fmPhase' = "indexed"
    /\ UNCHANGED <<fmData, fmFilters>>

\* --------------------------------------------------------------- DataLoader

\* An invocation suspended at an await: the handler it belongs to, the field it
\* loads, whether it is a forced refresh, the await it is at, the content of
\* the field when the handler began, and whether another retrieval has stored
\* a dataset in the field since
Suspended(op, field, forced, at) ==
    [id |-> dlLoads + 1, op |-> op, field |-> field, forced |-> forced, at |-> at,
     before |-> dlData[field], overtaken |-> FALSE]

\* What a handler segment leaves in dlLastOp
LastOp(p, outcome) ==
    [op |-> p.op, outcome |-> outcome, field |-> p.field, forced |-> p.forced,
     before |-> p.before, overtaken |-> p.overtaken]

\* The tabs of the page, and those that show signals
Tabs == {"daily", "125min", "watchlist"}

SignalTabs == {"daily", "125min"}

\* The handlers guarded by isLoading, the handler of a signals tab, its tab and
\* the field its data is kept in
Loaders == {"loadSignals", "loadDailySignals", "load125minSignals"}

loaderOf(tab) == IF tab = "daily" THEN "loadDailySignals" ELSE "load125minSignals"

loaderTab(op) == IF op = "loadDailySignals" THEN "daily" ELSE "125min"

tabField(tab) == IF tab = "daily" THEN "daily" ELSE "min125"

\* Mutant: the finally block leaves the guard as it is
finallyIsLoading_kept(p) == dlIsLoading

\* main.js:162-164, 495-497, 571-573 (app.js:72-73): isLoading after the
\* finally block of a guarded handler; the other handlers do not touch it
finallyIsLoading(p) == IF p.op \in Loaders THEN FALSE ELSE dlIsLoading

\* What the end of a handler leaves in the tab it loads
tabContentAfter(p, content) ==
    IF p.op \in {"loadDailySignals", "load125minSignals"}
    THEN [tabContent EXCEPT ![loaderTab(p.op)] = content]
    ELSE tabContent

\* dataLoader.js:247-254: refreshData(timeframe) nulls the field, and getData
\* (228-240) then finds it empty and calls loadParquetData, which runs to its
\* first await (line 38)
refreshData(timeframe) ==
    /\ component = "DataLoader"
    /\ UNCHANGED <<component, cmVars, crVars, sanVars, stVars, fmVars>>
    /\ dlLoads < MaxLoads
    /\ dlData' = [dlData EXCEPT ![timeframe] = 0]
    /\ LET p == Suspended("refreshData", timeframe, TRUE, "load")
       IN  /\ dlPending' = dlPending \cup {p}
           /\ dlLastOp' = LastOp(p, "suspended")
    /\ dlLoads' = dlLoads + 1
    /\ UNCHANGED <<dlIsLoading, currentTab, tabContent>>

\* main.js:76-120: loadSignals(forceRefresh) up to its first await that
\* suspends: dataLoader.clearCache() when forced (line 113), else the retrieval
\* inside dataLoader.getData(timeframe) when the field is empty; with the field
\* loaded the handler runs to its end (lines 120-164)
loadSignals(timeframe, forceRefresh) ==
    /\ component = "DataLoader"
    /\ UNCHANGED <<component, cmVars, crVars, sanVars, stVars, fmVars>>
    /\ ~dlIsLoading
    /\ dlLoads < MaxLoads
    /\ LET at == IF forceRefresh THEN "clearCache" ELSE "load"
           p == Suspended("loadSignals", timeframe, forceRefresh, at)
       IN  IF forceRefresh \/ dlData[timeframe] = 0
           THEN /\ dlIsLoading' = TRUE
                /\ dlPending' = dlPending \cup {p}
                /\ dlLoads' = dlLoads + 1
                /\ dlLastOp' = LastOp(p, "suspended")
           ELSE /\ dlLastOp' = LastOp(p, "returned")
                /\ UNCHANGED <<dlIsLoading, dlPending, dlLoads>>
    /\ UNCHANGED <<dlData, currentTab, tabContent>>

\* main.js:428-446 and 504-522 (app.js:38-53): loadDailySignals(forceRefresh)
\* and load125minSignals(forceRefresh) up to their first await that suspends:
\* the call returns at once while isLoading is set; else it takes the guard and
\* waits for clearCache when forced or for the retrieval when the field is
\* empty; with the field loaded it renders the tables and runs to its end
loadTabSignals(tab, forceRefresh) ==
    LET at == IF forceRefresh THEN "clearCache" ELSE "load"
        p == Suspended(loaderOf(tab), tabField(tab), forceRefresh, at)
    IN  /\ IF dlIsLoading
           THEN /\ dlLastOp' = LastOp(p, "refused")
                /\ UNCHANGED <<dlIsLoading, dlPending, dlLoads, tabContent>>
           ELSE IF forceRefresh \/ dlData[tabField(tab)] = 0
           THEN /\ dlLoads < MaxLoads
                /\ dlIsLoading' = TRUE
                /\ dlPending' = dlPending \cup {p}
                /\ dlLoads' = dlLoads + 1
                /\ dlLastOp' = LastOp(p, "suspended")
                /\ UNCHANGED tabContent
           ELSE /\ dlLastOp' = LastOp(p, "returned")
                /\ tabContent' = tabContentAfter(p, "signals")
                /\ dlIsLoading' = finallyIsLoading(p)
                /\ UNCHANGED <<dlPending, dlLoads>>
        /\ UNCHANGED dlData

\* main.js:399-422: switchTab(tab) records the tab and calls its loader
switchTab(tab) ==
    /\ component = "switchTab"
    /\ UNCHANGED <<component, cmVars, crVars, sanVars, stVars, fmVars>>
    /\ currentTab' = tab
    /\ IF tab \in SignalTabs
       THEN loadTabSignals(tab, FALSE)
       ELSE UNCHANGED <<dlData, dlIsLoading, dlPending, dlLoads, dlLastOp, tabContent>>

\* main.js:428: loadDailySignals(forceRefresh), called by window.onload
\* (line 974), the refresh button and removeFromWatchlistUI (line 931)
loadDailySignals(forceRefresh) ==
    /\ component = "switchTab"
    /\ UNCHANGED <<component, cmVars, crVars, sanVars, stVars, fmVars>>
    /\ loadTabSignals("daily", forceRefresh)
    /\ UNCHANGED currentTab

\* main.js:504: load125minSignals(forceRefresh), called by the refresh button
\* and removeFromWatchlistUI (line 932)
load125minSignals(forceRefresh) ==
    /\ component = "switchTab"
    /\ UNCHANGED <<component, cmVars, crVars, sanVars, stVars, fmVars>>
    /\ loadTabSignals("125min", forceRefresh)
    /\ UNCHANGED currentTab

\* main.js:114-120: clearCache has resolved: loadSignals nulls the fields
\* (loadDailySignals and load125minSignals their own, lines 445 and 521) and
\* calls getData, which starts the retrieval
clearCacheResolve(p) ==
    /\ component \in {"DataLoader", "switchTab"}
    /\ UNCHANGED <<component, cmVars, crVars, sanVars, stVars, fmVars>>
    /\ p \in dlPending
    /\ p.at = "clearCache"
    /\ dlData' = [f \in Fields |->
                    IF f \in Timeframes /\ (p.op = "loadSignals" \/ f = p.field)
                    THEN 0 ELSE dlData[f]]
    /\ dlPending' = (dlPending \ {p}) \cup {[p EXCEPT !.at = "load"]}
    /\ dlLastOp' = LastOp(p, "suspended")
    /\ UNCHANGED <<dlIsLoading, dlLoads, currentTab, tabContent>>

\* dataLoader.js:218: clearCache has rejected: loadSignals goes to its catch
\* (main.js:153-161) and its finally (163)
clearCacheReject(p) ==
    /\ component \in {"DataLoader", "switchTab"}
    /\ UNCHANGED <<component, cmVars, crVars, sanVars, stVars, fmVars>>
    /\ p \in dlPending
    /\ p.at = "clearCache"
    /\ dlPending' = dlPending \ {p}
    /\ dlIsLoading' = finallyIsLoading(p)
    /\ tabContent' = tabContentAfter(p, "error")
    /\ dlLastOp' = LastOp(p, "cacheRejected")
    /\ UNCHANGED <<dlData, dlLoads, currentTab>>

\* config.js:443-448: getData(forceRefresh) of the DataLoader with one dataset:
\* loadData runs to its first await when forced or when nothing is loaded
getData(forceRefresh) ==
    /\ component = "DataLoader"
    /\ UNCHANGED <<component, cmVars, crVars, sanVars, stVars, fmVars>>
    /\ dlLoads < MaxLoads
    /\ LET p == Suspended("getData", "data", forceRefresh, "load")
       IN  IF forceRefresh \/ dlData["data"] = 0
           THEN /\ dlPending' = dlPending \cup {p}
                /\ dlLoads' = dlLoads + 1
                /\ dlLastOp' = LastOp(p, "suspended")
           ELSE /\ dlLastOp' = LastOp(p, "returned")
                /\ UNCHANGED <<dlPending, dlLoads>>
    /\ UNCHANGED <<dlData, dlIsLoading, currentTab, tabContent>>

\* dataLoader.js:228-240: getData(timeframe), as ChartRenderer.loadNextBatch
\* calls it (chartRenderer.js:391): loadParquetData runs to its first await
\* when the field is empty, whatever isLoading[timeframe] says
DataLoader_getData(timeframe) ==
    /\ component = "DataLoader"
    /\ UNCHANGED <<component, cmVars, crVars, sanVars, stVars, fmVars>>
    /\ dlLoads < MaxLoads
    /\ LET p == Suspended("DataLoader.getData", timeframe, FALSE, "load")
       IN  IF dlData[timeframe] = 0
           THEN /\ dlPending' = dlPending \cup {p}
                /\ dlLoads' = dlLoads + 1
                /\ dlLastOp' = LastOp(p, "suspended")
           ELSE /\ dlLastOp' = LastOp(p, "returned")
                /\ UNCHANGED <<dlPending, dlLoads>>
    /\ UNCHANGED <<dlData, dlIsLoading, currentTab, tabContent>>

\* The retrieval has succeeded: the dataset is stored (dataLoader.js:124-128,
\* config.js:343) and the handler runs to its end
loadResolve(p) ==
    /\ component \in {"DataLoader", "switchTab"}
    /\ UNCHANGED <<component, cmVars, crVars, sanVars, stVars, fmVars>>
    /\ p \in dlPending
    /\ p.at = "load"
    /\ dlData' = [dlData EXCEPT ![p.field] = p.id]
    /\ dlPending' = {IF q.field = p.field THEN [q EXCEPT !.overtaken = TRUE] ELSE q :
                        q \in dlPending \ {p}}
    /\ dlIsLoading' = finallyIsLoading(p)
    /\ tabContent' = tabContentAfter(p, "signals")
    /\ dlLastOp' = LastOp(p, "resolved")
    /\ UNCHANGED <<dlLoads, currentTab>>

\* The retrieval has failed (fetch rejects, or the status is not ok): the
\* error is thrown on to the caller (dataLoader.js:133-138, config.js:347-351;
\* main.js:153-163 for loadSignals)
loadReject(p) ==
    /\ component \in {"DataLoader", "switchTab"}
    /\ UNCHANGED <<component, cmVars, crVars, sanVars, stVars, fmVars>>
    /\ p \in dlPending
    /\ p.at = "load"
    /\ dlPending' = dlPending \ {p}
    /\ dlIsLoading' = finallyIsLoading(p)
    /\ tabContent' = tabContentAfter(p, "error")
    /\ dlLastOp' = LastOp(p, "rejected")
    /\ UNCHANGED <<dlData, dlLoads, currentTab>>

Next ==
    \/ \E o \in Outcomes : renderCharts(o)
    \/ renderChartsBegin
    \/ \E g \in 1..MaxResets, o \in Outcomes : renderChartsResume(g, o)
    \/ loadMore
    \/ scrollListenerFire
    \/ loadMoreResume
    \/ \E t \in itemTimers, i \in 0..(MaxTotal - 1) : renderSingleChart(t, i)
    \/ \E t \in itemTimers : itemTimersDone(t)
    \/ \E n \in Totals : renderChartsGrid(n)
    \/ ChartRenderer_loadNextBatch
    \/ observerFire
    \/ \E r \in batchPending : loadNextBatchResume(r)
    \/ \E r \in batchPending : loadNextBatchReject(r)
    \/ \E c \in gridPending : renderChartsGridResume(c)
    \/ \E t \in crItemTimers, i \in 0..(MaxTotal - 1) : renderChart(t, i)
    \/ \E t \in crItemTimers : crItemTimersDone(t)
    \/ \E p \in Points : pushPoint(p)
    \/ sanitize
    \/ sanitizeAgain
    \/ \E c \in Candles : pushCandle(c)
    \/ addSupertrendSeries
    \/ \E c \in StampedCandles : pushStampedCandle(c)
    \/ addBandSeries
    \/ \E sym \in 1..MaxRows, c \in RowCandles : pushRow(sym, c)
    \/ \E f \in FilterSets, reversed \in BOOLEAN : callDetectSignals(f, reversed)
    \/ \E c \in HistoryCandles : pushHistory(c)
    \/ \E c \in LatestCandles, reversed \in BOOLEAN : callDetectBreakout(c, reversed)
    \/ \E sym \in 1..MaxRows, c \in LegacyCandles : pushLegacyRow(sym, c)
    \/ \E f \in LegacyFilterSets, reversed \in BOOLEAN : callApplyFilters(f, reversed)
    \/ \E sym \in -1..MaxRows, ts \in 0..MaxTime : pushIndexRow(sym, ts)
    \/ buildIndex
    \/ \E timeframe \in Timeframes : refreshData(timeframe)
    \/ \E timeframe \in Timeframes, forceRefresh \in BOOLEAN :
            loadSignals(timeframe, forceRefresh)
    \/ \E p \in dlPending : clearCacheResolve(p)
    \/ \E p \in dlPending : clearCacheReject(p)
    \/ \E forceRefresh \in BOOLEAN : getData(forceRefresh)
    \/ \E timeframe \in Timeframes : DataLoader_getData(timeframe)
    \/ \E tab \in Tabs : switchTab(tab)
    \/ \E forceRefresh \in BOOLEAN : loadDailySignals(forceRefresh)
    \/ \E forceRefresh \in BOOLEAN : load125minSignals(forceRefresh)
    \/ \E p \in dlPending : loadResolve(p)
    \/ \E p \in dlPending : loadReject(p)

Spec == Init /\ [][Next]_vars

\* The proximity triggers keep being delivered and every suspended invocation is
\* eventually resumed: timers fire and promises settle
Fairness ==
    /\ WF_vars(scrollListenerFire)
    /\ WF_vars(loadMoreResume)
    /\ WF_vars(\E g \in 1..MaxResets, o \in Outcomes : renderChartsResume(g, o))
    /\ WF_vars(observerFire)
    /\ WF_vars(\E r \in batchPending : loadNextBatchResume(r) \/ loadNextBatchReject(r))
    /\ WF_vars(\E c \in gridPending : renderChartsGridResume(c))
    /\ WF_vars(\E t \in itemTimers : itemTimersDone(t))
    /\ WF_vars(\E t \in crItemTimers : crItemTimersDone(t))
    /\ WF_vars(\E p \in dlPending : clearCacheResolve(p) \/ clearCacheReject(p))
    /\ WF_vars(\E p \in dlPending : loadResolve(p) \/ loadReject(p))

FairSpec == Spec /\ Fairness

\* ------------------------------------------------------------------ claims

\* ChartsManager: every signal of the list has been handed out
cmComplete == loadedCount >= allSignals.n

\* ChartRenderer: the next batch would start past the end of the list
\* (chartRenderer.js:378)
crComplete == currentBatchIndex * chartBatchSize >= allSymbols.n

\* ChartRenderer: the same, for the list of the latest renderChartsGrid call (an
\* empty list leaves the fields of the previous one behind)
crCompleteLatest ==
    IF allSymbols.gen = crGeneration THEN crComplete ELSE TRUE

\* C1: at most one batch load is in flight at any time, in ChartsManager
\* (suspended loadMore invocations) and in ChartRenderer (suspended loadNextBatch
\* invocations), whatever the interleaving of calls, triggers and resets.
C1_AtMostOneInFlight ==
    /\ Len(loadMorePending) <= 1
    /\ Cardinality(batchPending) <= 1

\* C2: loadedCount stays within 0..total in every reachable state.
C2_LoadedCountWithinTotal ==
    /\ 0 <= loadedCount
    /\ loadedCount <= allSignals.n

C2_Witness ==
    /\ allSignals.n > INITIAL_BATCH + LOAD_MORE_BATCH
    /\ allSignals.n < INITIAL_BATCH + 2 * LOAD_MORE_BATCH
    /\ loadedCount = allSignals.n
    /\ Len(batches) = 3
    /\ cmLastOp = "loadMoreResume"

\* C3: a batch completion that was started before a reset and resumes after it
\* is dropped: it does not advance loadedCount or the batch index, does not clear
\* the in-flight guard and dispatches nothing.
C3_StaleCompletionDropped ==
    [][/\ (/\ loadMorePending # <<>>
           /\ Head(loadMorePending).gen # generation
           /\ loadMoreResume)
          => UNCHANGED <<loadedCount, isLoadingMore, batches>>
       /\ \A r \in batchPending :
            (r.startedGen # crGeneration /\ loadNextBatchResume(r))
            => UNCHANGED <<currentBatchIndex, isLoadingBatch, crBatches>>]_vars

\* C4: when the proximity trigger keeps being delivered and pending completions
\* keep being delivered, the scheduler reaches Complete.
C4_ReachesComplete == []<>(cmComplete /\ crCompleteLatest)

\* C5: once Complete, every loadMore / loadNextBatch call and every proximity
\* trigger leaves loadedCount (the batch index), the in-flight guard and the
\* batches handed out unchanged.
C5_CompleteAbsorbing ==
    [][/\ (cmComplete /\ (loadMore \/ scrollListenerFire))
          => UNCHANGED <<loadedCount, isLoadingMore, allSignals, batches, loadMorePending>>
       /\ (crComplete /\ (ChartRenderer_loadNextBatch \/ observerFire))
          => UNCHANGED <<currentBatchIndex, isLoadingBatch, allSymbols, crBatches,
                         batchPending>>]_vars

C5_Witness ==
    /\ cmComplete
    /\ allSignals.n > INITIAL_BATCH
    /\ ~isLoadingMore
    /\ cmLastOp = "loadMoreNoop"

\* C6: a proximity trigger or load call that arrives while a batch is in flight
\* changes nothing, and the completion of that batch advances loadedCount by at
\* most one increment, as one batch.
C6_TriggerWhileInFlightNoop ==
    [][/\ (isLoadingMore /\ (loadMore \/ scrollListenerFire))
          => UNCHANGED <<loadedCount, isLoadingMore, allSignals, batches, loadMorePending>>
       /\ (isLoadingBatch /\ (ChartRenderer_loadNextBatch \/ observerFire))
          => UNCHANGED <<currentBatchIndex, isLoadingBatch, allSymbols, crBatches,
                         batchPending>>
       /\ loadMoreResume
          => /\ loadedCount' - loadedCount <= LOAD_MORE_BATCH
             /\ Len(batches') <= Len(batches) + 1]_vars

C6_Witness ==
    /\ isLoadingMore
    /\ loadMorePending # <<>>
    /\ cmLastOp = "loadMoreNoop"

\* C7: right after a reset the scheduler is idle: loadedCount (the start index)
\* is 0 and the in-flight guard is false, also when a batch was in flight.
C7_ResetIdle ==
    /\ resetSnapshot.loadedCount = 0
    /\ resetSnapshot.inFlight = FALSE
    /\ crResetSnapshot.startIndex = 0
    /\ crResetSnapshot.inFlight = FALSE

\* The batch size a ChartsManager step passes to loadNextBatch
C8_Size == IF loadMoreResume THEN LOAD_MORE_BATCH ELSE INITIAL_BATCH

\* The value of loadedCount a ChartsManager step's loadNextBatch starts from
C8_Start == IF generation' # generation THEN 0 ELSE loadedCount

\* The batches of scenario D
C8_First == [start |-> 0, end |-> 20]
C8_Second == [start |-> 20, end |-> 25]

C8_Range(b) == [start |-> b.start, end |-> b.end]

\* C8: every loadNextBatch(batchSize) that runs sets loadedCount to
\* min(loadedCount + batchSize, total) and, when it dispatches, hands out the
\* range from the old loadedCount to the new one; with total = 25, initial size 20
\* and increment 10 the ranges are [0,20) then [20,25), and then the scheduler is
\* Complete.
C8_BatchRanges ==
    /\ [][(\/ loadMoreResume
           \/ \E o \in Outcomes : o.ok /\ o.n > 0 /\ renderCharts(o)
           \/ \E g \in 1..MaxResets, o \in Outcomes :
                o.ok /\ o.n > 0 /\ renderChartsResume(g, o))
          => /\ loadedCount' = Min(C8_Start + C8_Size, allSignals'.n)
             /\ batches' # batches
                => /\ batches' = Append(IF generation' # generation THEN <<>> ELSE batches,
                                        batches'[Len(batches')])
                   /\ C8_Range(batches'[Len(batches')]) =
                          [start |-> C8_Start, end |-> loadedCount']]_vars
    /\ [](/\ allSignals.n = 25
          /\ batches # <<>>
          /\ \A i \in 1..Len(batches) : batches[i].gen = allSignals.gen
          => /\ C8_Range(batches[1]) = C8_First
             /\ Len(batches) = 1 => loadedCount = 20
             /\ Len(batches) >= 2
                => /\ Len(batches) = 2
                   /\ C8_Range(batches[2]) = C8_Second
                   /\ loadedCount = 25
                   /\ cmComplete)

C8_Witness ==
    /\ allSignals.n = 25
    /\ Len(batches) = 2
    /\ C8_Range(batches[1]) = C8_First
    /\ C8_Range(batches[2]) = C8_Second
    /\ batches[1].gen = allSignals.gen
    /\ batches[2].gen = allSignals.gen
    /\ loadedCount = 25
    /\ cmLastOp = "loadMoreNoop"

\* C9: sanitizeAndSortPoints applied to its own result gives that result again,
\* in both variants of the function.
C9_Idempotent ==
    sanPhase = "twice" => (cleanAgain = clean /\ cleanNumAgain = cleanNum)

C9_Witness ==
    /\ sanPhase = "twice"
    /\ Len(points) = 3
    /\ Len(clean) = 1
    /\ points[1] # points[2]

\* The places of the list that hold a point with a finite time and value
C10_Finite ==
    {i \in 1..Len(points) :
        /\ ~points[i].nil
        /\ NumberIsFinite(points[i].time)
        /\ NumberIsFinite(points[i].value)}

\* The last place of the list that holds a finite point with the time t
C10_Last(t) ==
    CHOOSE i \in C10_Finite :
        /\ NumVal(points[i].time) = t
        /\ \A j \in C10_Finite : NumVal(points[j].time) = t => j <= i

\* C10: the result is strictly ascending by time, holds exactly the times of the
\* finite input points, and carries for each time the last input point with
\* that time; [{5,1},{5,2},{3,9}] gives [{3,9},{5,2}].
C10_SortedLastWriteWins ==
    sanPhase # "input" =>
        /\ \A j \in 1..Len(clean) : \A k \in 1..Len(clean) :
              j < k => NumVal(clean[j].time) < NumVal(clean[k].time)
        /\ {NumVal(clean[j].time) : j \in 1..Len(clean)}
              = {NumVal(points[i].time) : i \in C10_Finite}
        /\ \A j \in 1..Len(clean) : clean[j] = points[C10_Last(NumVal(clean[j].time))]
        /\ points = <<Pt(Num(5), Num(1)), Pt(Num(5), Num(2)), Pt(Num(3), Num(9))>>
              => clean = <<Pt(Num(3), Num(9)), Pt(Num(5), Num(2))>>

C10_Witness ==
    /\ sanPhase = "once"
    /\ points = <<Pt(Num(5), Num(1)), Pt(Num(5), Num(2)), Pt(Num(3), Num(9))>>
    /\ clean = <<Pt(Num(3), Num(9)), Pt(Num(5), Num(2))>>

\* The finite points of the list: those the function is to keep
C11_FinitePoints ==
    {points[i] : i \in {j \in 1..Len(points) :
        /\ ~points[j].nil
        /\ NumberIsFinite(points[j].time)
        /\ NumberIsFinite(points[j].value)}}

\* C11: every point of the result, in both variants of the function, is a point
\* of the list whose time and value are finite numbers; a point whose time or
\* value is missing, null, NaN, infinite or not a number leaves nothing in the
\* result.
C11_NonFiniteDropped ==
    sanPhase # "input" =>
        /\ \A j \in 1..Len(clean) : clean[j] \in C11_FinitePoints
        /\ \A j \in 1..Len(cleanNum) :
              \E q \in C11_FinitePoints :
                 /\ NumVal(q.time) = NumVal(cleanNum[j].time)
                 /\ NumVal(q.value) = NumVal(cleanNum[j].value)

\* The candles of the series whose value for the role is a finite number
C12_FiniteCandles ==
    SelectSeq(candles, LAMBDA c : NumberIsFinite(parseFloat(c.value)))

\* The number of maximal runs of one tag among them
C12_Runs ==
    LET f == C12_FiniteCandles
    IN  IF f = <<>> THEN 0
        ELSE 1 + Cardinality({i \in 2..Len(f) : f[i].dir # f[i - 1].dir})

\* C12: in every variant of the builder the number of segments is the number of
\* maximal runs of one direction tag among the candles with a finite value,
\* wherever the candles without one stand, the last place included.
C12_SegmentsAreRuns ==
    stPhase = "done" =>
        /\ Len(segments) = C12_Runs
        /\ Len(segmentsEarlier) = C12_Runs
        /\ Len(segmentsRows) = C12_Runs
        /\ Len(segmentsRenderChart) = C12_Runs

\* In a list of segments, every segment but the first starts with a point equal
\* to the last point of the segment before it and holds that point once; the
\* first segment holds no point twice
C13_Shared(segs) ==
    /\ \A j \in 2..Len(segs) :
          LET prevLast == segs[j - 1].data[Len(segs[j - 1].data)]
          IN  /\ segs[j].data[1] = prevLast
              /\ Cardinality({i \in 1..Len(segs[j].data) : segs[j].data[i] = prevLast}) = 1
    /\ segs # <<>> =>
          \A i \in 1..Len(segs[1].data) : \A k \in 1..Len(segs[1].data) :
              i < k => segs[1].data[i] # segs[1].data[k]

\* Tags [1,1,-1,-1,1] with values [10,10,12,12,9]
C13_ScenarioA ==
    <<Stamped(Candle(Num(10), 1), 1), Stamped(Candle(Num(10), 1), 2),
      Stamped(Candle(Num(12), -1), 3), Stamped(Candle(Num(12), -1), 4),
      Stamped(Candle(Num(9), 1), 5)>>

\* Three segments, the first ending with the point of the candle at index 1
\* (value 10) and the second with the point of the candle at index 3 (value
\* 12); t1 and t3 are the times the variant gives those candles
C13_SplitAfter1And3(segs, t1, t3) ==
    /\ Len(segs) = 3
    /\ segs[1].data[Len(segs[1].data)] = Pt(Num(t1), Num(10))
    /\ segs[2].data[Len(segs[2].data)] = Pt(Num(t3), Num(12))
    /\ segs[2].data[1] = Pt(Num(t1), Num(10))
    /\ segs[3].data[1] = Pt(Num(t3), Num(12))
    /\ segs[3].data[Len(segs[3].data)].value = Num(9)

\* C13: in the segments of every variant of the builder, each segment but the
\* first starts with exactly one point equal in time and value to the last
\* point of the segment before it, and the first segment has no duplicated
\* point; tags [1,1,-1,-1,1] with values [10,10,12,12,9] give 3 segments, split
\* after index 1 and after index 3.
C13_BoundaryShared ==
    stPhase = "done" =>
        /\ C13_Shared(segments)
        /\ C13_Shared(segmentsEarlier)
        /\ C13_Shared(segmentsRows)
        /\ C13_Shared(segmentsRenderChart)
        /\ candles = C13_ScenarioA =>
              /\ C13_SplitAfter1And3(segments, 1, 3)
              /\ C13_SplitAfter1And3(segmentsEarlier, 2, 4)
              /\ C13_SplitAfter1And3(segmentsRows, 3, 7)
              /\ C13_SplitAfter1And3(segmentsRenderChart, 2, 4)

C13_Witness ==
    /\ stPhase = "done"
    /\ candles = C13_ScenarioA
    /\ Len(segments) = 3
    /\ Len(segments[2].data) = 4

\* A list of segments for a series without finite values is empty; for a series
\* whose finite values all carry one tag it is one segment that holds no point
\* twice
C14_Holds(segs) ==
    LET f == C12_FiniteCandles
    IN  /\ f = <<>> => segs = <<>>
        /\ (f # <<>> /\ \A i \in 1..Len(f) : f[i].dir = f[1].dir) =>
              /\ Len(segs) = 1
              /\ \A i \in 1..Len(segs[1].data) : \A k \in 1..Len(segs[1].data) :
                    i < k => segs[1].data[i] # segs[1].data[k]

\* C14: in every variant of the builder a series with no finite value for the
\* role gives an empty list of segments, and a series whose finite values all
\* share one tag gives exactly one segment, without a duplicated boundary point.
C14_EmptyAndSingleRun ==
    stPhase = "done" =>
        /\ C14_Holds(segments)
        /\ C14_Holds(segmentsEarlier)
        /\ C14_Holds(segmentsRows)
        /\ C14_Holds(segmentsRenderChart)

\* The rows of a symbol in the data of the call, and its latest candle: the row
\* with the greatest timestamp
C15_RowsOf(sym) == {fmData[i] : i \in {j \in 1..Len(fmData) : fmData[j].trading_symbol = sym}}

C15_Latest(sym) ==
    CHOOSE r \in C15_RowsOf(sym) : \A q \in C15_RowsOf(sym) : q.timestamp <= r.timestamp

\* The symbol is in the list the call returned
C15_Returned(sym) ==
    /\ ~fmSignals.threw
    /\ \E i \in 1..Len(fmSignals.list) : fmSignals.list[i].symbol = sym

\* The shared pre-filter as the specification states it: slow direction bullish
\* and market cap at or above the floor
C15_Eligible(r) ==
    /\ r.biggerDirection = Num(-1)
    /\ r.market_cap.k = "num"
    /\ r.market_cap.v >= fmFilters.mcap

\* abs((close - lowerBand) / close) * 100 <= threshold, the threshold in hundredths
C15_Within(r) ==
    Abs(r.close.v - r.shorterLowerband.v) * 10000 <= fmFilters.pctDiff * Abs(r.close.v)

\* C15: under the Support rule an eligible symbol whose latest candle carries
\* the direction columns, a close and a fast lower band qualifies exactly when
\* abs((close - fastLowerBand) / close) * 100 <= pctThreshold, the boundary
\* included.
C15_SupportRule ==
    (fmPhase = "done" /\ fmFilters.strategy = "volatility_support"
        /\ timeframeKey(fmFilters.timeframe) \in STRATEGY_CONFIGS) =>
        \A sym \in symbolsOf(fmData) :
            LET r == C15_Latest(sym)
            IN  (C15_Eligible(r) /\ r.shorterDirection # Undefined
                    /\ r.close.k = "num" /\ r.close.v # 0
                    /\ r.shorterLowerband.k = "num")
                => (C15_Returned(sym) <=> C15_Within(r))

\* The window size K of the Breakout rule
C16_K == 10

\* The candle of the history that is the p-th from the end in time order (the
\* timestamps of a history are 1..n)
C16_FromEnd(p) ==
    CHOOSE r \in C15_RowsOf(1) : r.timestamp = Len(fmData) + 1 - p

\* A breakout candle: fast direction bullish and close above the fast upper band
C16_IsBreakout(r) ==
    /\ r.shorterDirection = Num(-1)
    /\ r.close.v > r.shorterUpperband.v

\* The removal condition on a candle: close below the fast indicator value and
\* fast direction bearish
C16_Removal(r) ==
    /\ r.close.v < r.shorterSupertrend.v
    /\ r.shorterDirection = Num(1)

C17_RemovalExcludes ==
    (component = "checkVolatilityBreakout" /\ fmPhase = "done") =>
        (C16_Removal(C16_FromEnd(1)) => ~C15_Returned(1))

\* The latest candle meets the removal condition, the candle before it is a
\* breakout candle, and nothing is returned
C17_Witness ==
    /\ component = "checkVolatilityBreakout"
    /\ fmPhase = "done"
    /\ Len(fmData) >= 2
    /\ C16_Removal(C16_FromEnd(1))
    /\ C16_IsBreakout(C16_FromEnd(2))
    /\ fmSignals = [threw |-> FALSE, list |-> <<>>]

\* C18: every symbol detectSignals returns, under either rule, has on its
\* latest candle in time order a slow direction equal to the bullish tag -1 and
\* a market cap at or above the floor.
C18_ReturnedAreEligible ==
    (component \in {"detectSignals", "checkVolatilityBreakout"}
        /\ fmPhase = "done" /\ ~fmSignals.threw) =>
        \A i \in 1..Len(fmSignals.list) :
            /\ fmSignals.list[i].symbol \in symbolsOf(fmData)
            /\ C15_Eligible(C15_Latest(fmSignals.list[i].symbol))

\* One symbol is returned while another, eligible on an earlier candle but not
\* on its latest, is not; the rows were given latest first
C18_Witness ==
    /\ component = "detectSignals"
    /\ fmPhase = "done"
    /\ Len(fmSignals.list) = 1
    /\ Len(fmData) = 3
    /\ fmData[1].timestamp = 3
    /\ \E sym \in symbolsOf(fmData) :
          /\ ~C15_Eligible(C15_Latest(sym))
          /\ \E r \in C15_RowsOf(sym) : C15_Eligible(r)
          /\ ~C15_Returned(sym)

\* A list is ascending by the key of its records, among the records whose key
\* is a number
C19_Ascending(list, key(_)) ==
    \A i \in 1..Len(list) : \A j \in 1..Len(list) :
        (i < j /\ NumberIsFinite(key(list[i])) /\ NumberIsFinite(key(list[j])))
        => NumVal(key(list[i])) <= NumVal(key(list[j]))

\* The absolute value of the distance metric a returned record carries
C19_SignalKey(sig) == absParseFloat2(sig.pctDiff)

C19_ChartKey(entry) == Num(Abs(NumVal(orZero(entry.row.pct))))

\* C19: every list a classification call returns (detectSignals, the long and
\* the short list of applyFilters, filterSymbolsForCharts) is sorted ascending
\* by the absolute value of its distance metric.
C19_SortedByMetric ==
    fmPhase = "done" =>
        IF component = "applyFilters"
        THEN /\ ~fmSignals.applied.threw =>
                  /\ C19_Ascending(fmSignals.applied.long, C19_SignalKey)
                  /\ C19_Ascending(fmSignals.applied.short, C19_SignalKey)
             /\ C19_Ascending(fmSignals.charts, C19_ChartKey)
        ELSE ~fmSignals.threw => C19_Ascending(fmSignals.list, C19_SignalKey)

\* A field that is undefined or null
C20_Missing(x) == x.k \in {"undef", "null"}

\* The latest candle of a symbol lacks a price or indicator field the call
\* requires: the directions, the close and the bands of the active rule for
\* detectSignals; direction, supertrend and close for applyFilters
C20_Bad(sym) ==
    LET r == C15_Latest(sym)
    IN  IF component = "applyFilters"
        THEN C20_Missing(r.direction) \/ C20_Missing(r.supertrend) \/ C20_Missing(r.close)
        ELSE \/ C20_Missing(r.biggerDirection) \/ C20_Missing(r.shorterDirection)
             \/ C20_Missing(r.close)
             \/ /\ fmFilters.strategy = "volatility_support"
                /\ C20_Missing(r.shorterLowerband)
             \/ /\ fmFilters.strategy = "volatility_breakout"
                /\ C20_Missing(r.shorterUpperband) \/ C20_Missing(r.shorterSupertrend)

\* The data without the rows of the symbols whose latest candle lacks a field
C20_GoodData == SelectSeq(fmData, LAMBDA r : ~C20_Bad(r.trading_symbol))

\* The symbols of a returned list
C20_SymbolsIn(list) == {list[i].symbol : i \in 1..Len(list)}

\* C20: a classification call on data in which the latest candle of a symbol
\* lacks (undefined or null) a required price or indicator field returns
\* normally, without that symbol, and with the result it gives on the data
\* without that symbol.
C20_BadSymbolSkipped ==
    fmPhase = "done" =>
        IF component = "applyFilters"
        THEN /\ ~fmSignals.applied.threw
             /\ \A sym \in symbolsOf(fmData) :
                   C20_Bad(sym) => sym \notin C20_SymbolsIn(fmSignals.applied.long)
                                           \cup C20_SymbolsIn(fmSignals.applied.short)
             /\ fmSignals.applied = applyFilters(C20_GoodData, fmFilters)
        ELSE /\ ~fmSignals.threw
             /\ \A sym \in symbolsOf(fmData) :
                   C20_Bad(sym) => sym \notin C20_SymbolsIn(fmSignals.list)
             /\ fmSignals = detectSignals(C20_GoodData, fmFilters)

\* The call names a timeframe without a strategy config, or a strategy that is
\* neither of the two rules
C21_Unconfigured(f) ==
    \/ timeframeKey(f.timeframe) \notin STRATEGY_CONFIGS
    \/ f.strategy \notin {"volatility_breakout", "volatility_support"}

\* C21: a classification call made with an unconfigured timeframe or with an
\* invalid rule name ends in an error raised to its caller; it never returns a
\* normal result.
C21_ConfigurationError ==
    (component = "detectSignals" /\ fmPhase = "done" /\ C21_Unconfigured(fmFilters))
        => fmSignals.threw

\* C22: after a forced refresh whose retrieval failed, with no other retrieval
\* having stored a dataset meanwhile, the field holds the dataset it held
\* before the refresh began.
C22_FailedRefreshKeepsData ==
    (component = "DataLoader" /\ dlLastOp.outcome = "rejected" /\ dlLastOp.forced
        /\ ~dlLastOp.overtaken)
        => dlData[dlLastOp.field] = dlLastOp.before

\* The series the index built: the groups of getDataBySymbol and the result of
\* getSymbolCandles for every symbol
C23_Series ==
    {fmSignals.bySymbol[i].candles : i \in 1..Len(fmSignals.bySymbol)}
    \cup {fmSignals.symbolCandles[sym] : sym \in 1..MaxRows}

\* Every candle of the series is later than the one before it
C23_Strict(cs) ==
    \A i \in 1..(Len(cs) - 1) :
        keyAfter(newDate(cs[i + 1].timestamp), newDate(cs[i].timestamp))

\* A record of the input that a later record with its symbol and its timestamp
\* follows is not in the series
C23_LastWins(cs) ==
    \A k \in 1..Len(fmData) : \A j \in (k + 1)..Len(fmData) :
        (/\ fmData[k].trading_symbol = fmData[j].trading_symbol
         /\ fmData[k].timestamp = fmData[j].timestamp)
        => \A i \in 1..Len(cs) : cs[i] # fmData[k]

\* C23: every per-symbol series built by the index has strictly ascending,
\* unique timestamps, and of several records of one symbol with the same
\* timestamp only the later one in input order is kept.
C23_AscendingUnique ==
    (component = "getDataBySymbol" /\ fmPhase = "indexed") =>
        \A cs \in C23_Series : C23_Strict(cs) /\ C23_LastWins(cs)

\* The records of a symbol whose timestamp parses
C24_RowsOf(sym) ==
    {fmData[k] : k \in {j \in 1..Len(fmData) :
                            /\ fmData[j].trading_symbol = sym
                            /\ fmData[j].timestamp # 0}}

\* The record with the greatest timestamp, the later one in input order among
\* those that share it
C24_Expected(sym) ==
    CHOOSE r \in C24_RowsOf(sym) :
        \A q \in C24_RowsOf(sym) :
            \/ q.timestamp < r.timestamp
            \/ q.timestamp = r.timestamp /\ q.index <= r.index

\* The lookup holds that record for the symbol
C24_Found(latest, sym) ==
    \E i \in 1..Len(latest) :
        latest[i].symbol = sym /\ latest[i].row = C24_Expected(sym)

\* C24: for every symbol the latest-candle lookup (getLatestCandles of
\* dataLoader.js and of config.js) returns the record with the greatest
\* timestamp, the later one in input order among those sharing it, whatever
\* the order of the rows and even when some timestamps do not parse.
C24_LatestIsLast ==
    (component = "getDataBySymbol" /\ fmPhase = "indexed") =>
        \A sym \in 1..MaxRows :
            C24_RowsOf(sym) # {} =>
                /\ C24_Found(fmSignals.latestMap, sym)
                /\ C24_Found(fmSignals.latest, sym)

\* The groups partition the records that have a symbol: no group is keyed by a
\* missing symbol or keyed twice, a group holds records of its own symbol
\* only, a record with a symbol is held once by the group of its symbol, and a
\* record without one is held by no group
C25_Partition(groups) ==
    /\ \A i \in 1..Len(groups) :
          /\ groups[i].symbol \notin {0, -1}
          /\ \A j \in 1..Len(groups) : groups[j].symbol = groups[i].symbol => j = i
          /\ \A p \in 1..Len(groups[i].candles) :
                groups[i].candles[p].trading_symbol = groups[i].symbol
    /\ \A k \in 1..Len(fmData) :
          LET holders == {<<i, p>> \in (1..Len(groups)) \X (1..Len(fmData)) :
                              /\ p <= Len(groups[i].candles)
                              /\ groups[i].candles[p] = fmData[k]}
          IN  Cardinality(holders)
                  = IF fmData[k].trading_symbol \in {0, -1} THEN 0 ELSE 1

\* C25: grouping (getDataBySymbol of config.js and the grouping of
\* detectSignals) drops a record with a missing or empty symbol without raising
\* an error, and puts every other record in exactly one group, that of its
\* symbol.
C25_GroupingPartitions ==
    (component = "getDataBySymbol" /\ fmPhase = "indexed") =>
        /\ C25_Partition(fmSignals.bySymbol)
        /\ C25_Partition(fmSignals.grouped)

\* The index was built from three records: one with an empty symbol, one
\* without a symbol, one with a symbol, which is the only one grouped
C25_Witness ==
    /\ component = "getDataBySymbol"
    /\ fmPhase = "indexed"
    /\ Len(fmData) = 3
    /\ {fmData[k].trading_symbol : k \in 1..3} = {0, -1, 1}
    /\ Len(fmSignals.bySymbol) = 1
    /\ Len(fmSignals.grouped) = 1
    /\ Len(fmSignals.grouped[1].candles) = 1

\* The latest candle carries a number in every column the legacy partition reads
C26_Complete(r) ==
    \A x \in {r.direction, r.supertrend, r.close, r.market_cap, r.pct, r.flatbase} :
        x.k = "num"

\* The auxiliary filters as the specification states them
C26_Passes(r) ==
    /\ fmFilters.sector = "All" \/ r.sector = fmFilters.sector
    /\ fmFilters.industry = "All" \/ r.industry = fmFilters.industry
    /\ r.market_cap.v >= fmFilters.mcap
    /\ Abs(r.pct.v) <= fmFilters.pctDiff
    /\ r.flatbase.v >= fmFilters.flatbase

\* The symbol is in a list applyFilters returned
C26_In(sym, side) ==
    /\ ~fmSignals.applied.threw
    /\ sym \in C20_SymbolsIn(IF side = "long" THEN fmSignals.applied.long
                             ELSE fmSignals.applied.short)

\* C26: applyFilters places a symbol in long exactly when the direction of its
\* latest candle is -1 and the candle passes the sector, industry, market-cap,
\* pctDiff and flatbase filters, and in short exactly when the direction is 1
\* and the candle passes them.
C26_LegacyPartition ==
    (component = "applyFilters" /\ fmPhase = "done") =>
        \A sym \in symbolsOf(fmData) :
            LET r == C15_Latest(sym)
            IN  C26_Complete(r) =>
                  /\ C26_In(sym, "long") <=> (r.direction = Num(-1) /\ C26_Passes(r))
                  /\ C26_In(sym, "short") <=> (r.direction = Num(1) /\ C26_Passes(r))

\* C27: no per-item render scheduled by a timer before a reset is applied to
\* the grid of the new generation: no container chart-i of the current grid
\* holds a chart of a symbol that is not of the current symbol list.
C27_NoStaleItemRender ==
    /\ component = "ChartsManager" => ~foreignChart
    /\ component = "renderChart" => ~crForeignChart

\* C28: when dataLoader.getData rejects inside loadNextBatch and no other
\* batch is in flight, the in-flight guard isLoadingBatch is clear again.
C28_GuardClearedOnReject ==
    (component = "ChartRenderer" /\ crLastOp = "loadNextBatchReject"
        /\ batchPending = {})
        => ~isLoadingBatch

\* The batches handed out since the reset are of the list gen, start at 0, and
\* each starts where the one before it ended
C29_Contiguous(hist, gen) ==
    \A k \in 1..Len(hist) :
        /\ hist[k].gen = gen
        /\ hist[k].start = IF k = 1 THEN 0 ELSE hist[k - 1].end
        /\ hist[k].start < hist[k].end

\* They end at the end of a list of n items
C29_Covers(hist, n) == n > 0 => (hist # <<>> /\ hist[Len(hist)].end = n)

\* C29: between a reset and Complete the batches handed out are contiguous,
\* do not overlap and, at Complete, cover [0, total) of the current list:
\* every index is dispatched exactly once, in every interleaving of loads and
\* resets.
C29_EveryIndexOnce ==
    /\ component = "ChartsManager" =>
          /\ C29_Contiguous(batches, allSignals.gen)
          /\ (allSignals.gen = generation /\ cmComplete)
                => C29_Covers(batches, allSignals.n)
    /\ component = "ChartRenderer" =>
          /\ C29_Contiguous(crBatches, allSymbols.gen)
          /\ (allSymbols.gen = crGeneration /\ crComplete)
                => C29_Covers(crBatches, allSymbols.n)

\* The time of row i of the builder, the value before it (null before the first
\* row) and the points at that time in the segments the builder hands over
C30_Time(rows, i) == Num(anchorTwice(rows, i))

C30_PrevValue(rows, i) == IF i = 1 THEN Null ELSE rows[i - 1].value

C30_PointsAt(t) ==
    {p \in UNION {{segmentPts(segmentsRows[s])[k] :
                      k \in 1..Len(segmentPts(segmentsRows[s]))} :
                  s \in 1..Len(segmentsRows)} : p.time = t}

\* Some segment holds (t, prev) immediately before (t, value)
C30_StepBefore(t, prev, value) ==
    \E s \in 1..Len(segmentsRows) :
        LET p == segmentPts(segmentsRows[s])
        IN  \E k \in 1..(Len(p) - 1) : p[k] = Pt(t, prev) /\ p[k + 1] = Pt(t, value)

\* C30: step interpolation: whenever prevValue is defined and differs from the
\* new value, the segment the builder returns holds a point at the new point's
\* time carrying prevValue, placed before the point (time, value); when
\* prevValue equals value or is undefined, only (time, value) is present.
C30_StepInterpolation ==
    stPhase = "done" =>
        LET rows == rowsOf(candles, Len(candles))
        IN  \A i \in 1..Len(rows) :
                LET t == C30_Time(rows, i)
                    value == rows[i].value
                    prev == C30_PrevValue(rows, i)
                IN  IF prev # Null /\ prev # value
                    THEN C30_StepBefore(t, prev, value)
                    ELSE C30_PointsAt(t) = {Pt(t, value)}

\* In a list of segments, every segment but the first holds, after the copied
\* boundary point, one point only at the time of the first candle of its run:
\* that candle's own point, with no step point before it
C31_OwnPointOnly(segs) ==
    \A j \in 2..Len(segs) :
        LET data == segs[j].data
        IN  /\ Len(data) >= 2
            /\ data[2].time # data[1].time
            /\ Cardinality({i \in 2..Len(data) : data[i].time = data[2].time}) = 1

\* C31: on every tag change prevValue is reset to none for the new run, so the
\* first candle of a new run contributes only its own (time, value) point after
\* the copied boundary point and never an extra step point carrying the value
\* of the previous run: in addSupertrendSeries, its earlier variant and
\* addBandSeries.
C31_PrevResetOnTagChange ==
    (component = "addSupertrendSeries" /\ stPhase = "done") =>
        /\ C31_OwnPointOnly(segmentsEarlier)
        /\ C31_OwnPointOnly(segments)
        /\ C31_OwnPointOnly(segmentsBand)

\* Some segment of the list carries the tag and holds the point
C32_Emitted(segs, tag, p) ==
    \E j \in 1..Len(segs) :
        /\ segs[j].dir = tag
        /\ \E i \in 1..Len(segs[j].data) : segs[j].data[i] = p

\* C32: the open accumulator is always flushed at the end of the series: every
\* candle with a finite value for the role appears as a point of some emitted
\* segment carrying that candle's tag, even when candles after it (the last
\* candle of the series included) have non-finite values.
C32_FlushedAtEnd ==
    (component = "addSupertrendSeries" /\ stPhase = "done") =>
        \A n \in 1..Len(candles) :
            LET val == parseFloat(candles[n].value)
                tt == Num(candles[n].timestamp - 1)
            IN  NumberIsFinite(val) =>
                    /\ C32_Emitted(segments, candles[n].dir, Pt(tt, val))
                    /\ C32_Emitted(segmentsBand, newOp(candles[n].dir), Pt(tt, val))
                    /\ C32_Emitted(segmentsEarlier, candles[n].dir, Pt(Num(n), val))

\* The place in the candles of the candle that row k of the builder was made
\* from: the k-th candle with a finite value
C33_Source(k) ==
    CHOOSE n \in 1..Len(candles) :
        /\ NumberIsFinite(parseFloat(candles[n].value))
        /\ Len(rowsOf(candles, n)) = k

\* C33: anchor policy: the time coordinate of every emitted indicator point is
\* either the time coordinate of its source candle or the midpoint between that
\* coordinate and its successor's, on the axis of the candle series, also when
\* earlier candles were skipped for a non-finite indicator value (times are
\* doubled, as anchorTwice is).
C33_AnchorOnCandleAxis ==
    (component = "addSupertrendSeries" /\ stPhase = "done") =>
        LET rows == rowsOf(candles, Len(candles))
        IN  \A k \in 1..Len(rows) :
                LET i == ohlcTime(C33_Source(k))
                IN  /\ anchorTwice(rows, k) \in {2 * i, i + (i + 1)}
                    /\ \E j \in 1..Len(segmentsRows) :
                          \E q \in 1..Len(segmentsRows[j].data) :
                              segmentsRows[j].data[q] = Pt(C30_Time(rows, k), rows[k].value)

\* A point list is not empty, its times and values are finite and its times
\* increase strictly
C34_WellFormed(list) ==
    /\ list # <<>>
    /\ \A i \in 1..Len(list) :
          /\ ~list[i].nil
          /\ NumberIsFinite(list[i].time)
          /\ NumberIsFinite(list[i].value)
    /\ \A i \in 1..Len(list) : \A k \in 1..Len(list) :
          i < k => NumVal(list[i].time) < NumVal(list[k].time)

\* C34: every point list handed to the chart by addSupertrendSeries and
\* addBandSeries is non-empty, has strictly increasing times and holds only
\* finite times and values, for every candle series, with duplicate or
\* unparseable timestamps too.
C34_ListsWellFormed ==
    (component \in {"addSupertrendSeries", "addBandSeries"} /\ stPhase # "input") =>
        /\ \A j \in 1..Len(setData(segments)) : C34_WellFormed(setData(segments)[j])
        /\ \A j \in 1..Len(setData(segmentsBand)) :
              C34_WellFormed(setData(segmentsBand)[j])

\* A series with a timestamp that does not parse and one that repeats was
\* charted; the loop built a segment with two points of one time, and the list
\* handed over for it is shorter
C34_Witness ==
    /\ component = "addBandSeries"
    /\ stPhase = "charted"
    /\ \E n \in 1..Len(candles) : candles[n].timestamp = 0
    /\ \E n \in 1..Len(candles) : \E m \in 1..Len(candles) :
          n < m /\ candles[n].timestamp = candles[m].timestamp
                /\ candles[n].timestamp # 0
    /\ \E j \in 1..Len(segments) : \E i \in 1..Len(segments[j].data) :
          \E k \in 1..Len(segments[j].data) :
              i < k /\ segments[j].data[i].time = segments[j].data[k].time
    /\ Len(setData(segments)) = Len(segments)
    /\ \E j \in 1..Len(segments) : Len(setData(segments)[j]) < Len(segments[j].data)
    /\ setData(segmentsBand) # <<>>

\* The invocations that hold the guard: those of a guarded handler that are
\* suspended at an await
C35_Holders == {p \in dlPending : p.op \in Loaders}

\* C35: the signal-load guard isLoading is held by at most one loader at a
\* time and is released on every exit path: it is set exactly while one
\* guarded handler is suspended, and after a loadSignals, loadDailySignals or
\* load125minSignals call that took it has finished, by its end or by an
\* error, isLoading is false.
C35_GuardReleased ==
    component \in {"DataLoader", "switchTab"} =>
        /\ Cardinality(C35_Holders) <= 1
        /\ dlIsLoading <=> C35_Holders # {}
        /\ (dlLastOp.op \in Loaders
              /\ dlLastOp.outcome \in {"returned", "resolved", "rejected", "cacheRejected"})
                 => ~dlIsLoading

\* load125minSignals has just ended with an error after the daily tab was
\* loaded, and the guard is free
C35_Witness ==
    /\ component = "switchTab"
    /\ dlLastOp.op = "load125minSignals"
    /\ dlLastOp.outcome = "rejected"
    /\ tabContent["daily"] = "signals"
    /\ tabContent["125min"] = "error"
    /\ ~dlIsLoading

\* switchTab(tab) has just run: the tab is the current one and its loader was
\* called without forceRefresh
C36_Selected(tab) ==
    /\ component = "switchTab"
    /\ currentTab = tab
    /\ dlLastOp.op = loaderOf(tab)
    /\ ~dlLastOp.forced
    /\ dlLastOp.outcome \in {"refused", "suspended", "returned"}

\* C36: whenever switchTab selects the daily or the 125min tab, the signals of
\* that tab are eventually loaded and rendered (or its load fails), even if the
\* load of the other tab is still in progress at the moment of the switch.
C36_SelectedTabLoads ==
    \A tab \in SignalTabs : C36_Selected(tab) ~> (tabContent[tab] # "none")

\* C37: for each timeframe at most one dataset download (loadParquetData) is in
\* flight at any time: concurrent getData callers that find no data in memory
\* share one load.
C37_OneDownloadPerTimeframe ==
    component = "DataLoader" =>
        \A timeframe \in Timeframes :
            Cardinality({p \in dlPending : p.field = timeframe /\ p.at = "load"}) <= 1

\* No symbol is twice in the list
C38_Once(list) ==
    \A i \in 1..Len(list) : \A k \in 1..Len(list) :
        i < k => list[i].symbol # list[k].symbol

\* C38: each symbol appears at most once in a classification result:
\* detectSignals returns at most one record per symbol, and in applyFilters no
\* symbol is in both long and short nor twice in either list.
C38_SymbolOnce ==
    /\ (component \in {"detectSignals", "checkVolatilityBreakout"}
          /\ fmPhase = "done" /\ ~fmSignals.threw)
            => C38_Once(fmSignals.list)
    /\ (component = "applyFilters" /\ fmPhase = "done" /\ ~fmSignals.applied.threw)
            => C38_Once(fmSignals.applied.long \o fmSignals.applied.short)

\* applyFilters was called on three rows, two of them of one symbol, and
\* returned both symbols
C38_Witness ==
    /\ component = "applyFilters"
    /\ fmPhase = "done"
    /\ ~fmSignals.applied.threw
    /\ Len(fmData) = 3
    /\ Cardinality(symbolsOf(fmData)) = 2
    /\ Len(fmSignals.applied.long) + Len(fmSignals.applied.short) = 2

====
